---- MODULE Spec2Model ----
(***************************************************************************)
(* Model of the spectral pipeline of N-Argyle/spectral:                    *)
(*   utils.ts          processImageData, calculateAbsorbance,              *)
(*                     createGaussianKernel                                *)
(*   WebcamCapture     selection rectangle, blackout calibration, frames   *)
(*   page.tsx          HomePage state (currentFrame, calibration)          *)
(*   LiveSpectrum.tsx  the frame processing effect                         *)
(*                                                                         *)
(* Numbers.  JavaScript numbers are IEEE-754 binary64.  The model keeps    *)
(* the structure of binary floating point (sign, mantissa, exponent,       *)
(* round to nearest even, the exponent range, infinities and NaN) with a   *)
(* mantissa of MantBits bits instead of 53, so that every intermediate     *)
(* fits the integer range of the checker.  A finite number is a pair       *)
(* <<m, e>> standing for m * 2^e with m = 0 or 2^(MantBits-1) <= |m| <     *)
(* 2^MantBits; zero has no sign and numbers below 2^-1074 are zero.        *)
(* The one place where the 53-bit rounding decides a discrete              *)
(* outcome, the bin index floor((x / width) * 100), is modelled with the   *)
(* exact binary64 rounding (see SpectrumIndex).                            *)
(***************************************************************************)
EXTENDS Integers, Sequences, FiniteSets, TLC

(***************************************************************************)
(* Floating point                                                          *)
(***************************************************************************)
MantBits == 14

\* guard bits available to an exact intermediate below 2^30
GuardBits == 30 - MantBits

Abs(n) == IF n < 0 THEN -n ELSE n

Sgn(n) == IF n < 0 THEN -1 ELSE IF n > 0 THEN 1 ELSE 0

Min(a, b) == IF a <= b THEN a ELSE b

Max(a, b) == IF a >= b THEN a ELSE b

\* number of binary digits of n, 1 <= n < 2^30
RECURSIVE BitLenIn(_, _, _)
BitLenIn(n, lo, hi) ==
  IF lo = hi THEN lo
  ELSE LET mid == (lo + hi) \div 2
       IN IF n < 2^mid THEN BitLenIn(n, lo, mid) ELSE BitLenIn(n, mid + 1, hi)

BitLen(n) == BitLenIn(n, 1, 30)

FZero == <<0, 0>>

\* the values that are not finite
FNaN == <<0, 1>>

FInf == <<0, 2>>

FNegInf == <<0, 3>>

\* the value undefined of an array entry that holds no number
FUndef == <<0, 4>>

\* v ?? 0
OrZero(v) == IF v = FUndef THEN FZero ELSE v

\* the number an operand of <=, / is converted to
ToNumber(v) == IF v = FUndef THEN FNaN ELSE v

IsFinite(a) == a[1] # 0 \/ a[2] = 0

InfOf(sign) == IF sign < 0 THEN FNegInf ELSE FInf

\* -1, 0, 1; 0 for zero and for NaN
Sign(a) ==
  IF a[1] # 0 THEN Sgn(a[1])
  ELSE IF a = FInf THEN 1 ELSE IF a = FNegInf THEN -1 ELSE 0

\* binary64 overflows to an infinity from 2^1024 on and has no value below
\* 2^-1074
Ranged(m, e) ==
  IF e + MantBits - 1 >= 1024 THEN InfOf(m)
  ELSE IF e + MantBits - 1 < 0 - 1074 THEN FZero
  ELSE <<m, e>>

\* the float nearest to n * 2^e (ties to even), |n| < 2^30
Norm(n, e) ==
  IF n = 0 THEN FZero
  ELSE LET a == Abs(n)
           k == BitLen(a)
       IN IF k <= MantBits
          THEN Ranged(n * 2^(MantBits - k), e - (MantBits - k))
          ELSE LET s    == k - MantBits
                   q    == a \div 2^s
                   r    == a % 2^s
                   half == 2^(s-1)
                   up   == r > half \/ (r = half /\ q % 2 = 1)
                   m    == IF up THEN q + 1 ELSE q
               IN IF m = 2^MantBits
                  THEN Ranged(Sgn(n) * 2^(MantBits-1), e + s + 1)
                  ELSE Ranged(Sgn(n) * m, e + s)

FromInt(n) == Norm(n, 0)

FOne == FromInt(1)

FNeg(a) ==
  IF a[1] # 0 THEN <<-a[1], a[2]>>
  ELSE IF a = FInf THEN FNegInf ELSE IF a = FNegInf THEN FInf ELSE a

FAbs(a) ==
  IF a[1] # 0 THEN <<Abs(a[1]), a[2]>>
  ELSE IF a = FNegInf THEN FInf ELSE a

FMul(a, b) ==
  IF a[1] # 0 /\ b[1] # 0 THEN Norm(a[1] * b[1], a[2] + b[2])
  ELSE IF a = FNaN \/ b = FNaN THEN FNaN
  ELSE IF IsFinite(a) /\ IsFinite(b) THEN FZero
  ELSE IF Sign(a) * Sign(b) = 0 THEN FNaN
  ELSE InfOf(Sign(a) * Sign(b))

\* a / b: long division in two steps (every intermediate below 2^30), then
\* one digit that records whether the division left a remainder
FDiv(a, b) ==
  IF a[1] # 0 /\ b[1] # 0
  THEN LET den == Abs(b[1])
           n1  == Abs(a[1]) * 2^(GuardBits - 1)
           q1  == n1 \div den
           r1  == n1 % den
           n2  == r1 * 2^4
           q2  == n2 \div den
           st  == IF n2 % den = 0 THEN 0 ELSE 1
       IN Norm(Sgn(a[1]) * Sgn(b[1]) * ((q1 * 2^4 + q2) * 2 + st),
               a[2] - b[2] - (GuardBits - 1) - 4 - 1)
  ELSE IF a = FNaN \/ b = FNaN THEN FNaN
  ELSE IF IsFinite(a) /\ IsFinite(b)
  THEN IF b # FZero THEN FZero
       ELSE IF a = FZero THEN FNaN ELSE InfOf(Sign(a))
  ELSE IF ~IsFinite(a) /\ ~IsFinite(b) THEN FNaN
  ELSE IF IsFinite(a) THEN FZero
  ELSE InfOf(Sign(a) * (IF Sign(b) < 0 THEN -1 ELSE 1))

\* a + b: the operand of larger exponent is shifted left by at most
\* GuardBits - 3 digits, the other is shifted right, keeping a sticky digit
FAdd(a, b) ==
  IF a[1] # 0 /\ b[1] # 0
  THEN LET hi == IF a[2] >= b[2] THEN a ELSE b
           lo == IF a[2] >= b[2] THEN b ELSE a
           d  == hi[2] - lo[2]
           g  == Min(d, GuardBits - 3)
           sh == d - g
           al == Abs(lo[1])
           lq == IF sh >= MantBits THEN 0 ELSE al \div 2^sh
           st == IF sh >= MantBits THEN 1
                 ELSE IF al % 2^sh = 0 THEN 0 ELSE 1
           \* 2 * (hi * 2^g + lo / 2^sh), plus the sticky digit with the
           \* sign of lo
           n  == 2 * (hi[1] * 2^g + Sgn(lo[1]) * lq)
                 + Sgn(lo[1]) * st
       IN Norm(n, hi[2] - g - 1)
  ELSE IF a = FNaN \/ b = FNaN THEN FNaN
  ELSE IF ~IsFinite(a) THEN IF ~IsFinite(b) /\ a # b THEN FNaN ELSE a
  ELSE IF ~IsFinite(b) THEN b
  ELSE IF a = FZero THEN b ELSE a

FSub(a, b) == FAdd(a, FNeg(b))

\* a < b for two finite floats
FiniteLess(a, b) ==
  LET sa == Sgn(a[1])
      sb == Sgn(b[1])
  IN IF sa # sb THEN sa < sb
     ELSE IF sa = 0 THEN FALSE
     ELSE IF a[2] # b[2] THEN (IF sa > 0 THEN a[2] < b[2] ELSE a[2] > b[2])
     ELSE a[1] < b[1]

\* a < b; false when either is NaN
FLt(a, b) ==
  /\ a # FNaN
  /\ b # FNaN
  /\ a # b
  /\ IF a = FNegInf \/ b = FInf THEN TRUE
     ELSE IF a = FInf \/ b = FNegInf THEN FALSE
     ELSE FiniteLess(a, b)

\* a <= b; false when either is NaN
FLe(a, b) == a # FNaN /\ b # FNaN /\ (a = b \/ FLt(a, b))

\* Math.min(a, b)
FMin(a, b) ==
  IF a = FNaN \/ b = FNaN THEN FNaN ELSE IF FLe(a, b) THEN a ELSE b

\* Math.max(a, b)
FMax(a, b) ==
  IF a = FNaN \/ b = FNaN THEN FNaN ELSE IF FLe(a, b) THEN b ELSE a

\* the float nearest to the decimal literal num / den
FLit(num, den) == FDiv(FromInt(num), FromInt(den))

\* Math.ceil(a) as an integer, for a finite a of magnitude below 2^29
MathCeil(a) ==
  IF a[2] >= 0 THEN a[1] * 2^a[2]
  ELSE IF 0 - a[2] >= 30 THEN (IF a[1] > 0 THEN 1 ELSE 0)
  ELSE 0 - ((0 - a[1]) \div 2^(0 - a[2]))

\* an array as an explicit tuple: every element is computed once
Array(seq) == <<>> \o seq

RECURSIVE GCD(_, _)
GCD(a, b) == IF b = 0 THEN a ELSE GCD(b, a % b)

\* the float nearest to the quotient of two non-negative integers
FRat(num, den) ==
  LET g == GCD(num, den)
  IN IF den = 0 THEN FDiv(FromInt(num), FZero)
     ELSE IF num = 0 THEN FZero
     ELSE FDiv(FromInt(num \div g), FromInt(den \div g))

\* Math.exp(-t) for a float t >= 0.  Below 8 it is 1 / (1 + t + t^2/2! + ...),
\* the series stopping when a term no longer changes the sum; from 8 on it is
\* the square of Math.exp(-t / 2), which becomes 0 where the result lies
\* below the least number.  exp(-NaN) is NaN and exp(-Infinity) is 0.
ExpTerms == 28

RECURSIVE ExpSeries(_, _, _, _)
ExpSeries(t, k, term, acc) ==
  LET next == FDiv(FMul(term, t), FromInt(k))
      sum  == FAdd(acc, next)
  IN IF k > ExpTerms \/ sum = acc THEN acc
     ELSE ExpSeries(t, k + 1, next, sum)

RECURSIVE MathExpNeg(_)
MathExpNeg(t) ==
  IF t = FNaN THEN FNaN
  ELSE IF t = FInf THEN FZero
  ELSE IF FLe(FromInt(8), t)
  THEN LET h == MathExpNeg(FDiv(t, FromInt(2))) IN FMul(h, h)
  ELSE FDiv(FOne, ExpSeries(t, 1, FOne, FOne))

(***************************************************************************)
(* utils.ts                                                                *)
(***************************************************************************)
SPECTRUM_RESOLUTION == 100

Bins == 0..(SPECTRUM_RESOLUTION - 1)

\* Array(SPECTRUM_RESOLUTION).fill(0); JS index i is element i + 1
ZeroProfile == Array([i \in 1..SPECTRUM_RESOLUTION |-> FZero])

\* 2^p mod w
RECURSIVE PowMod2(_, _)
PowMod2(p, w) == IF p = 0 THEN 1 % w ELSE (2 * PowMod2(p - 1, w)) % w

\* least j with x * 2^j >= w, for 0 < x < w
RECURSIVE Log2Gap(_, _, _)
Log2Gap(x, w, j) == IF x * 2^j >= w THEN j ELSE Log2Gap(x, w, j + 1)

\* the bin nearest to x * SPECTRUM_RESOLUTION / width
SpectrumIndexNearest(x, width) ==
  (2 * x * SPECTRUM_RESOLUTION + width) \div (2 * width)

\* Math.floor((x / width) * SPECTRUM_RESOLUTION) in binary64, 0 <= x < width.
\* When x * 100 / width is not an integer the two roundings cannot reach the
\* next integer.  When it is an integer k, x / width is first rounded to 53
\* digits: q = (x * 2^p - rem) / (width * 2^p) if 2 * rem < width, and the
\* product q * 100 = k - 100 * rem / (width * 2^p) is rounded to k unless it
\* lies more than half a unit in the last place below k, in which case the
\* floor is k - 1.
SpectrumIndex(x, width) ==
  LET k == (x * SPECTRUM_RESOLUTION) \div width
  IN IF (x * SPECTRUM_RESOLUTION) % width # 0 \/ x = 0 THEN k
     ELSE LET j   == Log2Gap(x, width, 0)
              p   == 52 + j
              rem == (x * PowMod2(p, width)) % width
              ek  == BitLen(k) - (IF 2^(BitLen(k) - 1) = k THEN 2 ELSE 1)
              d   == p + ek - 53
          IN IF rem # 0 /\ 2 * rem < width
                /\ SPECTRUM_RESOLUTION * rem > width * 2^d
             THEN k - 1 ELSE k

\* An ImageData is a record [width, height, data], data the Uint8ClampedArray
\* as a sequence (JS index i is element i + 1).  A real ImageData has
\* width >= 1 and height >= 1; NoImage stands for undefined / null.
NoImage == [width |-> 0, height |-> 0, data |-> <<>>]

\* data[i] ?? 0
Byte(data, i) == IF i + 1 <= Len(data) THEN data[i + 1] ELSE 0

\* ScanTexel subtracting the calibration texel itself, without the factors
\* 0.95 and 1.05
ScanTexelPlain(imageData, blackoutCalibrationData, x, y) ==
  LET i      == (y * imageData.width + x) * 4
      r      == Byte(imageData.data, i)
      g      == Byte(imageData.data, i + 1)
      b      == Byte(imageData.data, i + 2)
      hasCal == blackoutCalibrationData # NoImage
      blackoutData == blackoutCalibrationData.data
      noiseR == IF hasCal THEN Byte(blackoutData, i) ELSE 0
      noiseG == IF hasCal THEN Byte(blackoutData, i + 1) ELSE 0
      noiseB == IF hasCal THEN Byte(blackoutData, i + 2) ELSE 0
  IN IF r + g + b < 30 THEN <<0, 0, 0, 0>>
     ELSE <<1, Max(0, 20 * r - 20 * noiseR), Max(0, 20 * g - 20 * noiseG),
            Max(0, 20 * b - 20 * noiseB)>>

\* ScanTexel skipping a texel when its adjusted values, not its raw values,
\* sum to less than 30
ScanTexelDarkAfter(imageData, blackoutCalibrationData, x, y) ==
  LET i      == (y * imageData.width + x) * 4
      r      == Byte(imageData.data, i)
      g      == Byte(imageData.data, i + 1)
      b      == Byte(imageData.data, i + 2)
      hasCal == blackoutCalibrationData # NoImage
      blackoutData == blackoutCalibrationData.data
      noiseR == IF hasCal THEN Byte(blackoutData, i) ELSE 0
      noiseG == IF hasCal THEN Byte(blackoutData, i + 1) ELSE 0
      noiseB == IF hasCal THEN Byte(blackoutData, i + 2) ELSE 0
      adjR   == Max(0, 20 * r - 19 * noiseR)
      adjG   == Max(0, 20 * g - 21 * noiseG)
      adjB   == Max(0, 20 * b - 19 * noiseB)
  IN IF adjR + adjG + adjB < 20 * 30 THEN <<0, 0, 0, 0>>
     ELSE <<1, adjR, adjG, adjB>>

\* the body of the pixel loop for the texel at column x, row y
\* (utils.ts 542-564): <<counted, adjR, adjG, adjB>>, the adjusted values
\* in units of 1/20; counted = 0 for a texel skipped as too dark
ScanTexel(imageData, blackoutCalibrationData, x, y) ==
  LET i      == (y * imageData.width + x) * 4
      r      == Byte(imageData.data, i)
      g      == Byte(imageData.data, i + 1)
      b      == Byte(imageData.data, i + 2)
      hasCal == blackoutCalibrationData # NoImage
      blackoutData == blackoutCalibrationData.data
      noiseR == IF hasCal THEN Byte(blackoutData, i) ELSE 0
      noiseG == IF hasCal THEN Byte(blackoutData, i + 1) ELSE 0
      noiseB == IF hasCal THEN Byte(blackoutData, i + 2) ELSE 0
      adjR   == Max(0, 20 * r - 19 * noiseR)
      adjG   == Max(0, 20 * g - 21 * noiseG)
      adjB   == Max(0, 20 * b - 19 * noiseB)
  IN IF r + g + b < 30 THEN <<0, 0, 0, 0>> ELSE <<1, adjR, adjG, adjB>>

\* the columns x of a block of the given width with spectrumIndex = bin
\* (utils.ts 567-570); an index outside 0 .. SPECTRUM_RESOLUTION - 1 is in
\* no bin
BinColumns(width) ==
  LET idx == Array([c \in 1..width |-> SpectrumIndex(c - 1, width)])
  IN Array([n \in 1..SPECTRUM_RESOLUTION |->
              {x \in 0..(width - 1) : idx[x + 1] = n - 1}])

\* sums of one bin: the texels (x, y') of the least column x of cols with
\* y' >= y, and every texel of the other columns of cols
RECURSIVE SumTexels(_, _, _, _)
SumTexels(imageData, blackoutCalibrationData, cols, y) ==
  IF cols = {} THEN <<0, 0, 0, 0>>
  ELSE LET x    == CHOOSE c \in cols : \A o \in cols : c <= o
           rest == IF y + 1 < imageData.height
                   THEN SumTexels(imageData, blackoutCalibrationData, cols, y + 1)
                   ELSE SumTexels(imageData, blackoutCalibrationData,
                                  cols \ {x}, 0)
           t    == ScanTexel(imageData, blackoutCalibrationData, x, y)
       IN <<rest[1] + t[2], rest[2] + t[3], rest[3] + t[4], rest[4] + t[1]>>

\* the result of the pixel loop (utils.ts 540-578): element i + 1 is
\* <<redIntensities[i], greenIntensities[i], blueIntensities[i], counts[i]>>,
\* the sums in units of 1/20 (they are exact, so the order of the additions
\* does not matter)
BinSums(imageData, blackoutCalibrationData) ==
  LET cols == BinColumns(imageData.width)
  IN Array([n \in 1..SPECTRUM_RESOLUTION |->
              SumTexels(imageData, blackoutCalibrationData, cols[n], 0)])

\* 380 + (i / SPECTRUM_RESOLUTION) * (750 - 380)
BinWavelength(i) ==
  FAdd(FromInt(380),
       FMul(FDiv(FromInt(i), FromInt(SPECTRUM_RESOLUTION)), FromInt(750 - 380)))

\* ChannelWeights with the green region ending at 590 nm
ChannelWeightsLateRed(i) ==
  LET wavelength == BinWavelength(i)
  IN IF FLt(wavelength, FromInt(490)) THEN <<0, 2, 10>>
     ELSE IF FLt(wavelength, FromInt(590)) THEN <<2, 7, 2>>
     ELSE <<8, 2, 0>>

\* <<redWeight, greenWeight, blueWeight>> in tenths
ChannelWeights(i) ==
  LET wavelength == BinWavelength(i)
  IN IF FLt(wavelength, FromInt(490)) THEN <<0, 2, 10>>
     ELSE IF FLt(wavelength, FromInt(580)) THEN <<2, 7, 2>>
     ELSE <<8, 2, 0>>

\* CombinedIntensity without the test of counts[i]
CombinedIntensityUnguarded(sums, i) ==
  LET s    == sums[i + 1]
      avgR == FRat(s[1], 20 * s[4])
      avgG == FRat(s[2], 20 * s[4])
      avgB == FRat(s[3], 20 * s[4])
      w    == ChannelWeights(i)
  IN FAdd(FAdd(FMul(avgR, FLit(w[1], 10)), FMul(avgG, FLit(w[2], 10))),
          FMul(avgB, FLit(w[3], 10)))

\* intensities[i] before smoothing (utils.ts 583-614)
CombinedIntensity(sums, i) ==
  LET s == sums[i + 1]
  IN IF s[4] > 0
     THEN LET avgR == FRat(s[1], 20 * s[4])
              avgG == FRat(s[2], 20 * s[4])
              avgB == FRat(s[3], 20 * s[4])
              w    == ChannelWeights(i)
          IN FAdd(FAdd(FMul(avgR, FLit(w[1], 10)), FMul(avgG, FLit(w[2], 10))),
                  FMul(avgB, FLit(w[3], 10)))
     ELSE FZero

\* the Channel-Combiner profile `intensities` (before smoothing) from the
\* sums and counts of the pixel loop (utils.ts 581-615)
CombineBins(sums) ==
  Array([n \in 1..SPECTRUM_RESOLUTION |-> CombinedIntensity(sums, n - 1)])

Intensities(imageData, blackoutCalibrationData) ==
  CombineBins(BinSums(imageData, blackoutCalibrationData))

RECURSIVE FSum(_, _)
FSum(seq, n) == IF n = 0 THEN FZero ELSE FAdd(FSum(seq, n - 1), seq[n])

\* createGaussianKernel without the division by the sum
createGaussianKernelRaw(size, sigma) ==
  LET mean == size \div 2
  IN Array([i \in 1..size |->
              LET x == (i - 1) - mean
              IN MathExpNeg(FDiv(FromInt(x * x),
                                 FMul(FMul(FromInt(2), sigma), sigma)))])

\* createGaussianKernel(size, sigma) (utils.ts 928-940): element i + 1 is
\* kernel[i]
createGaussianKernel(size, sigma) ==
  LET mean == size \div 2
      raw  == Array([i \in 1..size |->
                 LET x == (i - 1) - mean
                 IN MathExpNeg(FDiv(FromInt(x * x),
                                    FMul(FMul(FromInt(2), sigma), sigma)))])
      sum  == FSum(raw, size)
  IN Array([i \in 1..size |-> FDiv(raw[i], sum)])

\* one output bin of the smoothing pass (utils.ts 622-639): <<sum, weightSum>>
\* after taps k = -half .. upto
RECURSIVE SmoothTaps(_, _, _, _, _)
SmoothTaps(intensities, kernel, i, k, half) ==
  IF k < -half THEN <<FZero, FZero>>
  ELSE LET prev  == SmoothTaps(intensities, kernel, i, k - 1, half)
           index == i + k
           kernelIndex == k + half
       IN IF index >= 0 /\ index < SPECTRUM_RESOLUTION
             /\ kernelIndex >= 0 /\ kernelIndex < Len(kernel)
          THEN <<FAdd(prev[1], FMul(intensities[index + 1], kernel[kernelIndex + 1])),
                 FAdd(prev[2], kernel[kernelIndex + 1])>>
          ELSE prev

\* SmoothBin without the division by weightSum (zero padding)
SmoothBinZeroPadded(intensities, kernel, i, kernelSize) ==
  LET t == SmoothTaps(intensities, kernel, i, kernelSize \div 2, kernelSize \div 2)
  IN IF FLt(FZero, t[2]) THEN t[1] ELSE FZero

SmoothBin(intensities, kernel, i, kernelSize) ==
  LET t == SmoothTaps(intensities, kernel, i, kernelSize \div 2, kernelSize \div 2)
  IN IF FLt(FZero, t[2]) THEN FDiv(t[1], t[2]) ELSE FZero

\* the smoothing pass with its kernel (utils.ts 630-641)
SmoothWith(intensities, kernel, kernelSize) ==
  Array([n \in 1..SPECTRUM_RESOLUTION |->
           SmoothBin(intensities, kernel, n - 1, kernelSize)])

\* kernelSize = 5, sigma = 1.0 (utils.ts 616-641)
Smoothed(intensities) ==
  SmoothWith(intensities, createGaussianKernel(5, FOne), 5)

\* kernelSize of smoothSpectrum: Math.ceil(sigma * 3) * 2 + 1
SpectrumKernelSize(sigma) == MathCeil(FMul(sigma, FromInt(3))) * 2 + 1

\* the kernel of smoothSpectrum (utils.ts 649-654): not normalised; element
\* j + 1 is kernel[j]
SpectrumKernel(sigma) ==
  LET kernelSize == SpectrumKernelSize(sigma)
  IN Array([j \in 1..kernelSize |->
              LET i == (j - 1) - ((kernelSize - 1) \div 2)
              IN MathExpNeg(FDiv(FromInt(i * i),
                                 FMul(FMul(FromInt(2), sigma), sigma)))])

\* <<sum, weight>> of smoothSpectrum for result[i] after taps j = 0 .. upto
RECURSIVE SpectrumTaps(_, _, _, _)
SpectrumTaps(data, kernel, i, upto) ==
  IF upto < 0 THEN <<FZero, FZero>>
  ELSE LET prev == SpectrumTaps(data, kernel, i, upto - 1)
           idx  == i + upto - (Len(kernel) \div 2)
       IN IF idx >= 0 /\ idx < Len(data)
          THEN <<FAdd(prev[1], FMul(OrZero(data[idx + 1]), kernel[upto + 1])),
                 FAdd(prev[2], kernel[upto + 1])>>
          ELSE prev

\* smoothSpectrum(data, sigma) (utils.ts 647-678)
smoothSpectrum(data, sigma) ==
  LET kernel == SpectrumKernel(sigma)
  IN Array([n \in 1..Len(data) |->
              LET t == SpectrumTaps(data, kernel, n - 1, Len(kernel) - 1)
              IN IF FLt(FZero, t[2]) THEN FDiv(t[1], t[2]) ELSE FZero])

\* ProfileOf returning an empty array when there is no image data
ProfileOfEmpty(imageData, intensities) ==
  IF imageData = NoImage THEN <<>> ELSE Smoothed(intensities)

\* the value processImageData returns for imageData once the pixel loop and
\* the channel weighting have produced `intensities` (utils.ts 524-527, 641)
ProfileOf(imageData, intensities) ==
  IF imageData = NoImage THEN ZeroProfile ELSE Smoothed(intensities)

\* processImageData(imageData, blackoutCalibrationData): a sequence of
\* SPECTRUM_RESOLUTION floats
processImageData(imageData, blackoutCalibrationData) ==
  ProfileOf(imageData,
            IF imageData = NoImage THEN <<>>
            ELSE Intensities(imageData, blackoutCalibrationData))

\* Math.log10(q) for a float q > 0.  log2 of the mantissa is developed digit
\* by digit (square; a result of 2 or more gives digit 1 and is halved);
\* log10(q) = log2(q) * log10(2).
LogBits == 12

RECURSIVE Log2Digits(_, _, _)
Log2Digits(x, n, frac) ==
  IF n = 0 THEN frac
  ELSE LET sq == (x * x) \div 2^(MantBits - 1)
       IN IF sq >= 2^MantBits
          THEN Log2Digits(sq \div 2, n - 1, 2 * frac + 1)
          ELSE Log2Digits(sq, n - 1, 2 * frac)

\* Math.log in the place of Math.log10
MathLogNatural(q) ==
  IF q = FNaN \/ Sign(q) < 0 THEN FNaN
  ELSE IF q = FZero THEN FNegInf
  ELSE IF q = FInf THEN FInf
  ELSE LET l2 == (q[2] + MantBits - 1) * 2^LogBits
                   + Log2Digits(q[1], LogBits, 0)
       IN FMul(Norm(l2, -LogBits), FLit(69315, 100000))

MathLog10(q) ==
  IF q = FNaN \/ Sign(q) < 0 THEN FNaN
  ELSE IF q = FZero THEN FNegInf
  ELSE IF q = FInf THEN FInf
  ELSE LET l2 == (q[2] + MantBits - 1) * 2^LogBits
                   + Log2Digits(q[1], LogBits, 0)
       IN FMul(Norm(l2, -LogBits), FLit(30103, 100000))

\* Correction with the reduction applied between 590 and 710 nm
CorrectionWideBand(index) ==
  LET wavelength     == BinWavelength(index)
      distFromCenter == FAbs(FSub(wavelength, FromInt(650)))
      maxCorrection  == FLit(7, 10)
  IN IF FLt(FromInt(590), wavelength) /\ FLt(wavelength, FromInt(710))
     THEN FSub(FOne,
               FMul(maxCorrection,
                    FSub(FOne, FDiv(distFromCenter, FromInt(50)))))
     ELSE FOne

\* the correction factor of bin `index` (utils.ts 858-874)
Correction(index) ==
  LET wavelength     == BinWavelength(index)
      distFromCenter == FAbs(FSub(wavelength, FromInt(650)))
      maxCorrection  == FLit(7, 10)
  IN IF FLt(FromInt(600), wavelength) /\ FLt(wavelength, FromInt(700))
        /\ FLt(distFromCenter, FromInt(50))
     THEN FSub(FOne,
               FMul(maxCorrection,
                    FSub(FOne, FDiv(distFromCenter, FromInt(50)))))
     ELSE FOne

\* AbsorbanceBin without the final Math.min(1, absorbance)
AbsorbanceBinUnclamped(r, s, index) ==
  IF FLe(r, FZero) \/ FLe(s, FZero) THEN FZero
  ELSE FAbs(FMul(FNeg(MathLog10(FDiv(r, s))), Correction(index)))

\* AbsorbanceBin testing the reference value alone
AbsorbanceBinReferenceOnly(r, s, index) ==
  IF FLe(ToNumber(r), FZero) THEN FZero
  ELSE FMin(FOne, FAbs(FMul(FNeg(MathLog10(FDiv(ToNumber(r), OrZero(s)))),
                            Correction(index))))

\* the callback of referenceData.map (utils.ts 851-882); r is the entry of
\* referenceData as it is, s is sampleData[index] ?? 0
AbsorbanceBin(r, s, index) ==
  LET rv == ToNumber(r)
      sv == OrZero(s)
  IN IF FLe(rv, FZero) \/ FLe(sv, FZero) THEN FZero
     ELSE LET absorbance ==
                FAbs(FMul(FNeg(MathLog10(FDiv(rv, sv))), Correction(index)))
          IN FMin(FOne, absorbance)

\* calculateAbsorbance pairing referenceData[index] with sampleData[index + 1]
calculateAbsorbanceShifted(referenceData, sampleData) ==
  IF Len(referenceData) # Len(sampleData) THEN ZeroProfile
  ELSE Array([n \in 1..Len(referenceData) |->
                AbsorbanceBin(referenceData[n],
                              IF n + 1 <= Len(sampleData) THEN sampleData[n + 1]
                              ELSE FZero,
                              n - 1)])

\* calculateAbsorbance(referenceData, sampleData)
calculateAbsorbance(referenceData, sampleData) ==
  IF Len(referenceData) # Len(sampleData) THEN ZeroProfile
  ELSE Array([n \in 1..Len(referenceData) |->
                AbsorbanceBin(referenceData[n], sampleData[n], n - 1)])

\* pixelToWavelength dividing by totalBins, as the wavelength of a bin is
\* computed inside processImageData and calculateAbsorbance
pixelToWavelengthOverBins(pixelPos, totalBins) ==
  (2 * (380 * totalBins + (750 - 380) * pixelPos) + totalBins)
     \div (2 * totalBins)

\* pixelToWavelength(pixelPos, totalBins) for totalBins >= 2 and
\* 0 <= pixelPos < totalBins:
\*   Math.round(380 + (pixelPos / (totalBins - 1)) * (750 - 380)).
\* The exact value 380 + 370 * pixelPos / (totalBins - 1) is a multiple of
\* 1 / (totalBins - 1); the three binary64 roundings move it by less than
\* 2^-40, so it stays on its side of every half integer it is not equal to;
\* Math.round rounds a half integer upwards.  For every totalBins below 3000
\* the binary64 result equals the value below.
pixelToWavelength(pixelPos, totalBins) ==
  (2 * (380 * (totalBins - 1) + (750 - 380) * pixelPos) + (totalBins - 1))
     \div (2 * (totalBins - 1))

(***************************************************************************)
(* AbsorbanceSpectrum.drawAbsorbanceLine: the points of the line and the   *)
(* peak detection.  The y coordinate of a point is used for drawing alone  *)
(* and is left out.                                                        *)
(***************************************************************************)
marginLeft == 40

marginRight == 20

windowSize == 5

peakProximity == 25

\* the x coordinate of the point of index i: margin.left + i * xScale
PointX(i, len, width) ==
  FAdd(FromInt(marginLeft),
       FMul(FromInt(i),
            FDiv(FromInt(width - marginLeft - marginRight), FromInt(len - 1))))

\* the array `points`: one point for every entry that is not undefined,
\* value = Math.min(maxAbsorbance, Math.abs(entry)) with maxAbsorbance = 1
Points(lineData, width) ==
  LET defined == SelectSeq([n \in 1..Len(lineData) |-> n - 1],
                           LAMBDA i : lineData[i + 1] # FUndef)
  IN Array([k \in 1..Len(defined) |->
              [x          |-> PointX(defined[k], Len(lineData), width),
               value      |-> FMin(FOne, FAbs(lineData[defined[k] + 1])),
               index      |-> defined[k],
               wavelength |-> pixelToWavelength(defined[k], Len(lineData))]])

\* sum of points[lo].value .. points[j].value, added in this order to 0
RECURSIVE WindowSum(_, _, _)
WindowSum(points, lo, j) ==
  IF j < lo THEN FZero
  ELSE FAdd(WindowSum(points, lo, j - 1), points[j].value)

\* the array smoothedPoints: the moving average over windowSize points, the
\* window cut at both ends of the array
SmoothedPoints(points) ==
  Array([i \in 1..Len(points) |->
           LET lo == Max(1, i - windowSize \div 2)
               hi == Min(Len(points), i + windowSize \div 2)
           IN [points[i] EXCEPT
                 !.value = FDiv(WindowSum(points, lo, hi),
                                FromInt(hi - lo + 1))]])

\* a threshold no value of the line exceeds
PeakThresholdAboveOne(wavelength) == FLit(11, 10)

\* peakThresholdBlue, peakThresholdGreen, peakThresholdRed
PeakThreshold(wavelength) ==
  IF wavelength < 490 THEN FLit(5, 100)
  ELSE IF wavelength < 580 THEN FLit(5, 100)
  ELSE FLit(5, 100)

\* isPeak with >= in the place of > for the four neighbours
IsPeakNotStrict(smoothedPoints, i) ==
  LET curr == smoothedPoints[i]
  IN /\ FLe(smoothedPoints[i - 1].value, curr.value)
     /\ FLe(smoothedPoints[i - 2].value, curr.value)
     /\ FLe(smoothedPoints[i + 1].value, curr.value)
     /\ FLe(smoothedPoints[i + 2].value, curr.value)
     /\ FLt(PeakThreshold(curr.wavelength), curr.value)

\* the test isPeak of the detection loop for element i of smoothedPoints
\* (i counts from 1)
IsPeak(smoothedPoints, i) ==
  LET curr == smoothedPoints[i]
  IN /\ FLt(smoothedPoints[i - 1].value, curr.value)
     /\ FLt(smoothedPoints[i - 2].value, curr.value)
     /\ FLt(smoothedPoints[i + 1].value, curr.value)
     /\ FLt(smoothedPoints[i + 2].value, curr.value)
     /\ FLt(PeakThreshold(curr.wavelength), curr.value)

\* PeaksAmong without the test farEnough: every candidate is accepted
RECURSIVE PeaksAmongAll(_, _, _)
PeaksAmongAll(smoothedPoints, rest, found) ==
  IF rest = {} THEN found
  ELSE LET i    == CHOOSE c \in rest : \A o \in rest : c <= o
           curr == smoothedPoints[i]
       IN PeaksAmongAll(smoothedPoints, rest \ {i},
                        Append(found, [x |-> curr.x, value |-> curr.value,
                                       wavelength |-> curr.wavelength]))

\* the detection loop over the elements `rest` that pass isPeak, in
\* increasing order: an element joins `found` when it is farEnough from
\* every peak found before it
RECURSIVE PeaksAmong(_, _, _)
PeaksAmong(smoothedPoints, rest, found) ==
  IF rest = {} THEN found
  ELSE LET i    == CHOOSE c \in rest : \A o \in rest : c <= o
           curr == smoothedPoints[i]
           farEnough ==
             \A k \in 1..Len(found) :
                FLt(FromInt(peakProximity), FAbs(FSub(found[k].x, curr.x)))
       IN PeaksAmong(smoothedPoints, rest \ {i},
                     IF farEnough
                     THEN Append(found, [x |-> curr.x, value |-> curr.value,
                                         wavelength |-> curr.wavelength])
                     ELSE found)

\* the elements of smoothedPoints (counted from 1) that pass isPeak in the
\* detection loop for (let i = 2; i < smoothedPoints.length - 2; i++)
PeakCandidates(smoothedPoints) ==
  {i \in 3..(Len(smoothedPoints) - 2) : IsPeak(smoothedPoints, i)}

\* the peaks drawAbsorbanceLine returns for the profile and display width
drawAbsorbanceLine(lineData, width) ==
  LET smoothedPoints == SmoothedPoints(Points(lineData, width))
  IN PeaksAmong(smoothedPoints, PeakCandidates(smoothedPoints), <<>>)

(***************************************************************************)
(* page.tsx: HomePage.downloadSpectralData                                 *)
(***************************************************************************)
\* v.toFixed(digits) for |v| < 2^16: <<"number", n>> stands for the decimal
\* string of n / 10^digits, n the integer nearest to v * 10^digits (of two
\* nearest the one away from 0); the other strings have n = 0
ToFixed(v, digits) ==
  IF v = FNaN THEN <<"NaN", 0>>
  ELSE IF v = FInf THEN <<"Infinity", 0>>
  ELSE IF v = FNegInf THEN <<"-Infinity", 0>>
  ELSE LET n  == Abs(v[1]) * 10^digits
           sh == 0 - v[2]
       IN <<"number",
            Sgn(v[1]) * (IF sh <= 0 THEN n * 2^(0 - sh)
                         ELSE IF sh > 30 THEN 0
                         ELSE (n + 2^(sh - 1)) \div 2^sh)>>

\* refTotal / sampleTotal of column x: the sum of r + g + b over the rows
\* y .. height - 1, the texel index computed with the given width
RECURSIVE ColumnTotal(_, _, _, _, _)
ColumnTotal(data, width, height, x, y) ==
  IF y >= height THEN 0
  ELSE LET i == (y * width + x) * 4
       IN Byte(data, i) + Byte(data, i + 1) + Byte(data, i + 2)
            + ColumnTotal(data, width, height, x, y + 1)

\* Math.round(380 + (x / referenceFrame.width) * (750 - 380)); for every
\* width below 3000 the binary64 result equals this value
ColumnWavelength(x, width) ==
  (2 * (380 * width + (750 - 380) * x) + width) \div (2 * width)

\* the four values of the CSV row of column x
CsvRow(reference, sample, x) ==
  LET refTotal    == ColumnTotal(reference.data, reference.width,
                                 reference.height, x, 0)
      sampleTotal == ColumnTotal(sample.data, reference.width,
                                 reference.height, x, 0)
      refIntensity    == FRat(refTotal, reference.height * 3)
      sampleIntensity == FRat(sampleTotal, sample.height * 3)
      ratio == IF FLt(FZero, sampleIntensity) /\ FLt(FZero, refIntensity)
               THEN FDiv(sampleIntensity, refIntensity) ELSE FOne
      absorbance == IF FLt(FZero, ratio) THEN FNeg(MathLog10(ratio)) ELSE FZero
  IN [wavelength |-> ColumnWavelength(x, reference.width),
      reference  |-> ToFixed(refIntensity, 2),
      sample     |-> ToFixed(sampleIntensity, 2),
      absorbance |-> ToFixed(absorbance, 4)]

\* the data rows of the CSV text, in order; no row (no download) when a frame
\* is missing
downloadSpectralData(reference, sample) ==
  IF reference = NoImage \/ sample = NoImage THEN <<>>
  ELSE Array([n \in 1..reference.width |-> CsvRow(reference, sample, n - 1)])

(***************************************************************************)
(* Inputs of the pipeline                                                  *)
(***************************************************************************)
MaxHeight == 2

Widths == {3, 100, 150}

Heights == 1..MaxHeight

Grey(v) == [kind |-> "uniform", texel |-> <<v, v, v>>]

Colour(r, g, b) == [kind |-> "uniform", texel |-> <<r, g, b>>]

Ramp == [kind |-> "ramp", texel |-> <<0, 0, 0>>]

Stripes == [kind |-> "stripes", texel |-> <<200, 200, 200>>]

\* Grey(9) has r + g + b = 27 < 30, Grey(10) has r + g + b = 30
Patterns ==
  {Grey(200), Ramp, Colour(255, 0, 0), Stripes, Grey(100), Grey(9), Grey(10),
   Colour(0, 0, 255)}

\* <<r, g, b>> of the texel at column x, row y
PatternTexel(pat, x, y) ==
  IF pat.kind = "uniform" THEN pat.texel
  ELSE IF pat.kind = "ramp"
  THEN <<(7 * x + 3 * y) % 256, (13 * x + 50) % 256, (510 - 2 * x) % 256>>
  ELSE IF x % 2 = 0 THEN pat.texel ELSE <<0, 0, 0>>

\* an ImageData of the given size whose buffer holds the first len bytes
\* (len = width * height * 4 for an ImageData made by the canvas)
MakeImage(width, height, pat, len) ==
  [width |-> width, height |-> height,
   data |-> Array([j \in 1..len |->
               LET n == (j - 1) \div 4
                   c == (j - 1) % 4
               IN IF c = 3 THEN 255
                  ELSE PatternTexel(pat, n % width, n \div width)[c + 1]])]

FullImage(width, height, pat) ==
  MakeImage(width, height, pat, width * height * 4)

\* a block whose buffer stops half way
ShortImage(width, height, pat) ==
  MakeImage(width, height, pat, width * height * 2)

\* the calibration blocks tried with a block: none, the block itself, a dark
\* frame of the same size, a dark frame one column wider, a frame of the same
\* size brighter than the block
CalKinds(pat) ==
  IF pat \in {Grey(200), Ramp} THEN {"none", "same", "dark", "wider"}
  ELSE IF pat = Colour(255, 0, 0) THEN {"none", "same"}
  ELSE IF pat = Grey(10) THEN {"none", "bright"}
  ELSE {"none"}

CalibrationFor(kind, img) ==
  IF kind = "same" THEN img
  ELSE IF kind = "dark"
  THEN FullImage(img.width, img.height, Colour(12, 8, 20))
  ELSE IF kind = "wider" THEN FullImage(img.width + 1, img.height, Ramp)
  ELSE IF kind = "bright" THEN FullImage(img.width, img.height, Grey(40))
  ELSE NoImage

\* the calls of processImageData that are tried: a block with a full buffer
\* and one of its calibrations, a block with a short buffer, no block at all
BlockChoices ==
  {c \in [width : Widths, height : Heights, pat : Patterns,
          buffer : {"full"},
          cal : {"none", "same", "dark", "wider", "bright"}] :
     c.cal \in CalKinds(c.pat)}
    \cup [width : Widths, height : Heights, pat : {Ramp},
          buffer : {"short"}, cal : {"none"}]
    \cup [width : {0}, height : {0}, pat : {Grey(0)},
          buffer : {"null"}, cal : {"none"}]

BlockOf(c) ==
  IF c.buffer = "null" THEN NoImage
  ELSE MakeImage(c.width, c.height, c.pat,
                 IF c.buffer = "full" THEN c.width * c.height * 4
                 ELSE c.width * c.height * 2)

\* the sample is the reference block again or, for two of the reference
\* patterns without calibration or calibrated with themselves, another block
\* of the same size
SampleChoices(frame, cal) ==
  {<<frame, cal>>}
    \cup IF /\ cal \in {NoImage, frame}
            /\ \E pat \in {Grey(200), Ramp} :
                  frame = FullImage(frame.width, frame.height, pat)
         THEN {<<FullImage(frame.width, frame.height, pat), NoImage>> :
                 pat \in {Grey(100), Stripes}}
         ELSE {}

\* profiles handed to calculateAbsorbance directly
ProfileLengths == {2, SPECTRUM_RESOLUTION, SPECTRUM_RESOLUTION + 1}

Flat(len, num, den) == Array([n \in 1..len |-> FRat(num, den)])

\* len entries 2^exp
Power(len, exp) ==
  Array([n \in 1..len |-> <<2^(MantBits - 1), exp - (MantBits - 1)>>])

Saw(len) ==
  Array([n \in 1..len |-> FRat(1 + ((37 * n) % 101), 1 + ((17 * n) % 7))])

\* the values an entry of a number[] can hold besides a positive finite
\* number, and two positive ones
SpecialValues ==
  <<FZero, FromInt(0 - 1), FNaN, FInf, FNegInf, FUndef, FOne, FromInt(2)>>

\* len entries running through SpecialValues from position shift on; two
\* such profiles with shifts 0 .. 4 pair every value with every value
Special(len, shift) ==
  Array([n \in 1..len |-> SpecialValues[((n + shift) % Len(SpecialValues)) + 1]])

Profiles ==
  {Special(SPECTRUM_RESOLUTION, shift) : shift \in 0..4} \cup
  {Flat(len, 1, 1000) : len \in ProfileLengths}
    \cup {Flat(len, 1, 1) : len \in ProfileLengths}
    \cup {Flat(len, 250, 1) : len \in ProfileLengths}
    \cup {Saw(len) : len \in ProfileLengths}
    \cup {Power(len, 1023) : len \in ProfileLengths}
    \cup {Power(len, 0 - 1074) : len \in ProfileLengths}

(***************************************************************************)
(* State                                                                   *)
(***************************************************************************)
VARIABLES
  step,                   \* "start", "reference", "sample", "absorbance",
                          \* "exported"
  referenceFrame,         \* block of the reference call of processImageData
  referenceCalibration,   \* its calibration block, NoImage when absent
  sampleFrame,            \* block of the sample call of processImageData
  sampleCalibration,      \* its calibration block
  binSums,                \* sums and counts of the pixel loop of the latest
                          \* call (see BinSums)
  intensities,            \* Channel-Combiner profile of the latest call
  referenceData,          \* profile returned for the reference
  sampleData,             \* profile returned for the sample
  absorbanceData,         \* profile returned by calculateAbsorbance
  csvRows,                \* data rows of the CSV text of the latest download
  outcome                 \* "none", "returned", "threw": how the latest call ended

pipeVars == <<step, referenceFrame, referenceCalibration, sampleFrame,
              sampleCalibration, binSums, intensities, referenceData,
              sampleData, absorbanceData, csvRows, outcome>>

\* WebcamCapture, HomePage and LiveSpectrum.  Of an ImageData the handlers
\* below use the dimensions alone: a captured block is a record
\* [width, height], NoBlock stands for null / undefined.
VARIABLES
  selectionRect,                \* WebcamCapture state [x, y, width, height]
  dragStart,                    \* WebcamCapture state, NoPoint when null
  dragMode,                     \* WebcamCapture state, "none" when null
  dragStartRect,                \* WebcamCapture state, NoRect when null
  blackoutCalibrationRef,       \* WebcamCapture ref
  currentFrame,                 \* HomePage state
  pageBlackoutCalibrationData,  \* HomePage state blackoutCalibrationData
  effectPending,                \* a dependency of the LiveSpectrum effect changed
  liveFrame,                    \* imageData of LiveSpectrum's latest call of
                                \* processImageData
  liveCalibration,              \* its blackoutCalibrationData
  events,                       \* number of events handled so far
  canvasLevel,                  \* grey level of the video image drawn on the
                                \* canvas by the latest processVideoFrame
  pageReferenceFrame,           \* HomePage state referenceFrame
  pageSampleFrame,              \* HomePage state sampleFrame
  spectraPending,               \* ReferenceSpectrum, SampleSpectrum and
                                \* AbsorbanceSpectrum have to run again
  shownReference,               \* [frame, calibration] of the latest call of
                                \* processImageData by ReferenceSpectrum
  shownSample,                  \* the same for SampleSpectrum
  shownAbsorbance,              \* the two calls of AbsorbanceSpectrum
  statusPending,                \* the effect of BlackoutStatus has to run
  lastCalibrationDataRef,       \* BlackoutStatus: key of the block processed
  averageValues,                \* BlackoutStatus state
  calibrationQuality            \* BlackoutStatus state

uiVars == <<selectionRect, dragStart, dragMode, dragStartRect,
            blackoutCalibrationRef, currentFrame, pageBlackoutCalibrationData,
            effectPending, liveFrame, liveCalibration, events, canvasLevel,
            pageReferenceFrame, pageSampleFrame, spectraPending,
            shownReference, shownSample, shownAbsorbance, statusPending,
            lastCalibrationDataRef, averageValues, calibrationQuality>>

\* what the handlers of the mouse and of the video frames leave alone
displayVars == <<pageReferenceFrame, pageSampleFrame, spectraPending,
                 shownReference, shownSample, shownAbsorbance, statusPending,
                 lastCalibrationDataRef, averageValues, calibrationQuality>>

\* calls of the helper functions of utils.ts and of the drawing code
VARIABLES
  called,          \* the helper whose call is looked at, "none" before a call
  totalBins,       \* totalBins of the latest run over pixelToWavelength
  wavelengths,     \* pixelToWavelength(i, totalBins) for i = 0 .. totalBins - 1
  drawnData,       \* data of the latest call of drawAbsorbanceLine
  drawnWidth,      \* its displayWidth
  peaks,           \* the peaks it returned
  candidates,      \* the indices i of its detection loop at which isPeak held
  gaussSize,       \* size of the latest call of createGaussianKernel
  gaussSigma,      \* its sigma
  gaussKernel,     \* the kernel it returned
  smoothData,      \* the profile given to the latest smoother
  smoothHalf,      \* half the length of its kernel
  smoothResult     \* the profile it returned

utilVars == <<called, totalBins, wavelengths, drawnData, drawnWidth, peaks, candidates,
              gaussSize, gaussSigma, gaussKernel, smoothData, smoothHalf,
              smoothResult>>

\* the frame effect of LiveSpectrum with the pixel data of its props
VARIABLES
  liveImage,          \* the currentFrame prop: an ImageData or NoImage (null)
  liveDark,           \* the blackoutCalibrationData prop
  maxSeenValue,       \* maxSeenValueRef.current
  processedData,      \* processedData of the latest run of the frame effect
  intensityData,      \* the intensityData state
  lastCalibrationKey, \* lastCalibrationKeyRef.current
  reportPending,      \* intensityData changed; the report effect has to run
  spectrumData,       \* the argument of the latest call of onDataProcessed
  framesProcessed     \* number of runs of the frame effect

liveVars == <<liveImage, liveDark, maxSeenValue, processedData,
              intensityData, lastCalibrationKey, reportPending, spectrumData,
              framesProcessed>>

\* the camera of WebcamCapture: device list, selection and getUserMedia calls
VARIABLES
  devices,              \* the devices state: device ids of the video inputs
  selectedDeviceId,     \* the selectedDeviceId state, 0 for ""
  stream,               \* the stream state: index in requests, 0 for null
  srcObject,            \* videoRef.current.srcObject, likewise
  requests,             \* the calls of getUserMedia so far, in order
  devicesEffectPending, \* the effect holding getDevices has to run
  startEffectPending,   \* the effect holding startCamera has to run
  cleanupStream,        \* `stream` as the cleanup of the latest getDevices
                        \* effect sees it
  selections,           \* number of choices made in the device list
  raced                 \* a device was chosen while a startCamera call waited
                        \* for getUserMedia

cameraVars == <<devices, selectedDeviceId, stream, srcObject, requests,
                devicesEffectPending, startEffectPending, cleanupStream,
                selections, raced>>

vars == <<pipeVars, uiVars, utilVars, liveVars, cameraVars>>

PipeInit ==
  /\ step = "start"
  /\ referenceFrame = NoImage
  /\ referenceCalibration = NoImage
  /\ sampleFrame = NoImage
  /\ sampleCalibration = NoImage
  /\ binSums = <<>>
  /\ intensities = <<>>
  /\ referenceData = <<>>
  /\ sampleData = <<>>
  /\ absorbanceData = <<>>
  /\ csvRows = <<>>
  /\ outcome = "none"

\* processImageData(referenceFrame, calibration).  The function has no throw
\* statement and no exit other than its two return statements: every call
\* returns a profile.
ProcessReference ==
  /\ step = "start"
  /\ step' = "reference"
  /\ \E c \in BlockChoices :
        /\ referenceFrame' = BlockOf(c)
        /\ referenceCalibration' = CalibrationFor(c.cal, referenceFrame')
  /\ binSums' = IF referenceFrame' = NoImage THEN <<>>
                ELSE BinSums(referenceFrame', referenceCalibration')
  /\ intensities' = IF referenceFrame' = NoImage THEN <<>>
                    ELSE CombineBins(binSums')
  /\ referenceData' = ProfileOf(referenceFrame', intensities')
  /\ outcome' = "returned"
  /\ UNCHANGED <<sampleFrame, sampleCalibration, sampleData, absorbanceData,
                 csvRows>>
  /\ UNCHANGED <<uiVars, utilVars, liveVars, cameraVars>>

\* processImageData(sampleFrame, calibration)
ProcessSample ==
  /\ step = "reference"
  /\ step' = "sample"
  /\ \E c \in SampleChoices(referenceFrame, referenceCalibration) :
        /\ sampleFrame' = c[1]
        /\ sampleCalibration' = c[2]
  /\ binSums' = IF sampleFrame' = NoImage THEN <<>>
                ELSE BinSums(sampleFrame', sampleCalibration')
  /\ intensities' = IF sampleFrame' = NoImage THEN <<>>
                    ELSE CombineBins(binSums')
  /\ sampleData' = ProfileOf(sampleFrame', intensities')
  /\ outcome' = "returned"
  /\ UNCHANGED <<referenceFrame, referenceCalibration, referenceData,
                 absorbanceData, csvRows>>
  /\ UNCHANGED <<uiVars, utilVars, liveVars, cameraVars>>

\* two profiles that did not come from processImageData
SupplyProfiles ==
  /\ step = "start"
  /\ \E r \in Profiles, s \in Profiles :
        /\ referenceData' = r
        /\ sampleData' = s
  /\ step' = "sample"
  /\ UNCHANGED <<referenceFrame, referenceCalibration, sampleFrame,
                 sampleCalibration, binSums, intensities, outcome, csvRows>>
  /\ absorbanceData' = <<>>
  /\ UNCHANGED <<uiVars, utilVars, liveVars, cameraVars>>

\* calculateAbsorbance(referenceData, sampleData): no throw statement, the
\* length check returns the zero profile
CalculateAbsorbance ==
  /\ step = "sample"
  /\ step' = "absorbance"
  /\ absorbanceData' = calculateAbsorbance(referenceData, sampleData)
  /\ outcome' = "returned"
  /\ UNCHANGED <<referenceFrame, referenceCalibration, sampleFrame,
                 sampleCalibration, binSums, intensities, referenceData,
                 sampleData, csvRows>>
  /\ UNCHANGED <<uiVars, utilVars, liveVars, cameraVars>>

\* HomePage.downloadSpectralData with the reference and the sample block of
\* the measurement; it returns at once when a block is missing
DownloadSpectralData ==
  /\ step = "absorbance"
  /\ referenceFrame # NoImage
  /\ sampleFrame # NoImage
  /\ step' = "exported"
  /\ csvRows' = downloadSpectralData(referenceFrame, sampleFrame)
  /\ UNCHANGED <<referenceFrame, referenceCalibration, sampleFrame,
                 sampleCalibration, binSums, intensities, referenceData,
                 sampleData, absorbanceData, outcome>>
  /\ UNCHANGED <<uiVars, utilVars, liveVars, cameraVars>>

\* the next measurement starts from scratch
NewMeasurement ==
  /\ step \in {"absorbance", "exported"}
  /\ step' = "start"
  /\ referenceFrame' = NoImage
  /\ referenceCalibration' = NoImage
  /\ sampleFrame' = NoImage
  /\ sampleCalibration' = NoImage
  /\ binSums' = <<>>
  /\ intensities' = <<>>
  /\ referenceData' = <<>>
  /\ sampleData' = <<>>
  /\ absorbanceData' = <<>>
  /\ csvRows' = <<>>
  /\ outcome' = "none"
  /\ UNCHANGED <<uiVars, utilVars, liveVars, cameraVars>>

(***************************************************************************)
(* WebcamCapture (selection rectangle, blackout calibration, frames),      *)
(* HomePage and the frame effect of LiveSpectrum                           *)
(***************************************************************************)
\* the canvas has the size of the video
Canvas == [width |-> 640, height |-> 480]

\* canvas coordinates of the mouse events that are tried
MousePoints ==
  [x : {10, 215, 635}, y : {10, 75, 475}]

\* the events of one session that are followed
MaxEvents == 6

\* one more event is handled
Event == events < MaxEvents /\ events' = events + 1

handleSize == 20

minSize == 50

NoPoint == [x |-> 0 - 1, y |-> 0 - 1]

NoRect == [x |-> 0, y |-> 0, width |-> 0, height |-> 0]

NoBlock == [width |-> 0, height |-> 0, level |-> 0]

\* the grey levels of the video image: a covered camera (5), stray light
\* (20), a lit scene (40)
Levels == {5, 20, 40}

\* ctx.getImageData(x, y, width, height): a block of that width and height
\* whose texels have the grey level drawn on the canvas
getImageData(rect, level) ==
  [width |-> rect.width, height |-> rect.height, level |-> level]

NoCall == [frame |-> NoBlock, calibration |-> NoBlock]

NoAverages == [r |-> 0 - 1, g |-> 0 - 1, b |-> 0 - 1]

\* the key null
NoKey == <<0, 0>>

UIInit ==
  /\ selectionRect = [x |-> 0, y |-> 0, width |-> 225, height |-> 85]
  /\ dragStart = NoPoint
  /\ dragMode = "none"
  /\ dragStartRect = NoRect
  /\ blackoutCalibrationRef = NoBlock
  /\ currentFrame = NoBlock
  /\ pageBlackoutCalibrationData = NoBlock
  /\ effectPending = FALSE
  /\ liveFrame = NoBlock
  /\ liveCalibration = NoBlock
  /\ events = 0
  /\ canvasLevel = 0
  /\ pageReferenceFrame = NoBlock
  /\ pageSampleFrame = NoBlock
  /\ spectraPending = FALSE
  /\ shownReference = NoCall
  /\ shownSample = NoCall
  /\ shownAbsorbance = <<NoCall, NoCall>>
  /\ statusPending = FALSE
  /\ lastCalibrationDataRef = NoKey
  /\ averageValues = NoAverages
  /\ calibrationQuality = "null"

\* the drag mode handleMouseDown chooses for a press at (x, y), "none" when
\* it returns without starting a drag
PressMode(x, y) ==
  LET r    == selectionRect
      onNW == Abs(x - r.x) <= handleSize /\ Abs(y - r.y) <= handleSize
      onNE == Abs(x - (r.x + r.width)) <= handleSize
              /\ Abs(y - r.y) <= handleSize
      onSW == Abs(x - r.x) <= handleSize
              /\ Abs(y - (r.y + r.height)) <= handleSize
      onSE == Abs(x - (r.x + r.width)) <= handleSize
              /\ Abs(y - (r.y + r.height)) <= handleSize
  IN IF x >= r.x /\ x <= r.x + r.width /\ y >= r.y - handleSize /\ y <= r.y
     THEN "move"
     ELSE IF onNW THEN "resize-nw"
     ELSE IF onNE THEN "resize-ne"
     ELSE IF onSW THEN "resize-sw"
     ELSE IF onSE THEN "resize-se"
     ELSE IF x >= r.x /\ x <= r.x + r.width /\ y >= r.y /\ y <= r.y + r.height
     THEN "move"
     ELSE "none"

handleMouseDown ==
  \E p \in MousePoints :
     /\ Event
     /\ PressMode(p.x, p.y) # "none"
     /\ dragMode' = PressMode(p.x, p.y)
     /\ dragStart' = p
     /\ dragStartRect' = selectionRect
     /\ UNCHANGED <<selectionRect, blackoutCalibrationRef, currentFrame,
                    pageBlackoutCalibrationData, effectPending, liveFrame,
                    liveCalibration, canvasLevel, displayVars>>
     /\ UNCHANGED <<pipeVars, utilVars, liveVars, cameraVars>>

\* ResizedRect without the last four assignments, which keep the selection
\* within the canvas
ResizedRectUnbounded(mode, start, deltaX, deltaY) ==
  IF mode = "resize-nw"
  THEN [x |-> Min(start.x + start.width - minSize, start.x + deltaX),
        y |-> Min(start.y + start.height - minSize, start.y + deltaY),
        width |-> Max(minSize, start.width - deltaX),
        height |-> Max(minSize, start.height - deltaY)]
  ELSE IF mode = "resize-ne"
  THEN [x |-> start.x,
        y |-> Min(start.y + start.height - minSize, start.y + deltaY),
        width |-> Max(minSize, start.width + deltaX),
        height |-> Max(minSize, start.height - deltaY)]
  ELSE IF mode = "resize-sw"
  THEN [x |-> Min(start.x + start.width - minSize, start.x + deltaX),
        y |-> start.y,
        width |-> Max(minSize, start.width - deltaX),
        height |-> Max(minSize, start.height + deltaY)]
  ELSE [x |-> start.x,
        y |-> start.y,
        width |-> Max(minSize, start.width + deltaX),
        height |-> Max(minSize, start.height + deltaY)]

\* the rectangle handleMouseMove sets for a resize
ResizedRect(mode, start, deltaX, deltaY) ==
  LET newRect ==
        IF mode = "resize-nw"
        THEN [x |-> Min(start.x + start.width - minSize, start.x + deltaX),
              y |-> Min(start.y + start.height - minSize, start.y + deltaY),
              width |-> Max(minSize, start.width - deltaX),
              height |-> Max(minSize, start.height - deltaY)]
        ELSE IF mode = "resize-ne"
        THEN [x |-> start.x,
              y |-> Min(start.y + start.height - minSize, start.y + deltaY),
              width |-> Max(minSize, start.width + deltaX),
              height |-> Max(minSize, start.height - deltaY)]
        ELSE IF mode = "resize-sw"
        THEN [x |-> Min(start.x + start.width - minSize, start.x + deltaX),
              y |-> start.y,
              width |-> Max(minSize, start.width - deltaX),
              height |-> Max(minSize, start.height + deltaY)]
        ELSE [x |-> start.x,
              y |-> start.y,
              width |-> Max(minSize, start.width + deltaX),
              height |-> Max(minSize, start.height + deltaY)]
      maxX == Canvas.width
      maxY == Canvas.height
      nx   == Max(0, Min(maxX - newRect.width, newRect.x))
      ny   == Max(0, Min(maxY - newRect.height, newRect.y))
  IN [x |-> nx, y |-> ny,
      width |-> Min(maxX - nx, newRect.width),
      height |-> Min(maxY - ny, newRect.height)]

handleMouseMove ==
  \E p \in MousePoints :
     /\ Event
     /\ dragStart # NoPoint
     /\ dragStartRect # NoRect
     /\ dragMode # "none"
     /\ LET deltaX == p.x - dragStart.x
            deltaY == p.y - dragStart.y
        IN selectionRect' =
             IF dragMode = "move"
             THEN [dragStartRect EXCEPT
                     !.x = Max(0, Min(Canvas.width - dragStartRect.width,
                                      dragStartRect.x + deltaX)),
                     !.y = Max(0, Min(Canvas.height - dragStartRect.height,
                                      dragStartRect.y + deltaY))]
             ELSE ResizedRect(dragMode, dragStartRect, deltaX, deltaY)
     /\ UNCHANGED <<dragStart, dragMode, dragStartRect, blackoutCalibrationRef,
                    currentFrame, pageBlackoutCalibrationData, effectPending,
                    liveFrame, liveCalibration, canvasLevel, displayVars>>
     /\ UNCHANGED <<pipeVars, utilVars, liveVars, cameraVars>>

handleMouseUp ==
  /\ Event
  /\ dragMode # "none"
  /\ dragStart' = NoPoint
  /\ dragStartRect' = NoRect
  /\ dragMode' = "none"
  /\ UNCHANGED <<selectionRect, blackoutCalibrationRef, currentFrame,
                 pageBlackoutCalibrationData, effectPending, liveFrame,
                 liveCalibration, canvasLevel, displayVars>>
  /\ UNCHANGED <<pipeVars, utilVars, liveVars, cameraVars>>

\* captureBlackoutCalibration without the call of onBlackoutCalibrated: the
\* block goes to the ref alone
captureBlackoutCalibrationRefOnly ==
  /\ Event
  /\ blackoutCalibrationRef' = getImageData(selectionRect, canvasLevel)
  /\ effectPending' = TRUE
  /\ statusPending' = TRUE
  /\ UNCHANGED <<selectionRect, dragStart, dragMode, dragStartRect,
                 currentFrame, liveFrame, liveCalibration, canvasLevel,
                 pageBlackoutCalibrationData,
                 pageReferenceFrame, pageSampleFrame, spectraPending,
                 shownReference, shownSample, shownAbsorbance,
                 lastCalibrationDataRef, averageValues, calibrationQuality>>
  /\ UNCHANGED <<pipeVars, utilVars, liveVars, cameraVars>>

\* captureBlackoutCalibration with onBlackoutCalibrated =
\* HomePage.handleBlackoutCalibrated: the block goes to the ref and to the
\* HomePage state, a dependency of the LiveSpectrum effect
captureBlackoutCalibration ==
  /\ Event
  /\ blackoutCalibrationRef' = getImageData(selectionRect, canvasLevel)
  /\ pageBlackoutCalibrationData' = blackoutCalibrationRef'
  /\ effectPending' = TRUE
  /\ statusPending' = TRUE
  /\ UNCHANGED <<selectionRect, dragStart, dragMode, dragStartRect,
                 currentFrame, liveFrame, liveCalibration, canvasLevel,
                 pageReferenceFrame, pageSampleFrame, spectraPending,
                 shownReference, shownSample, shownAbsorbance,
                 lastCalibrationDataRef, averageValues, calibrationQuality>>
  /\ UNCHANGED <<pipeVars, utilVars, liveVars, cameraVars>>

\* processVideoFrame with onFrameCapture = HomePage.handleFrameCapture, which
\* stores the block and ignores the calibration handed to it
processVideoFrame ==
  /\ Event
  /\ selectionRect.width > 0
  /\ selectionRect.height > 0
  /\ \E level \in Levels : canvasLevel' = level
  /\ LET imageData == getImageData(selectionRect, canvasLevel')
     IN /\ imageData.width > 0
        /\ imageData.height > 0
        /\ currentFrame' = imageData
  /\ effectPending' = TRUE
  /\ UNCHANGED <<selectionRect, dragStart, dragMode, dragStartRect,
                 blackoutCalibrationRef, pageBlackoutCalibrationData,
                 liveFrame, liveCalibration, displayVars>>
  /\ UNCHANGED <<pipeVars, utilVars, liveVars, cameraVars>>

\* the effect of LiveSpectrum on [currentFrame, blackoutCalibrationData]: it
\* returns when there is no frame, otherwise it calls
\* processImageData(currentFrame, blackoutCalibrationData ?? undefined)
LiveSpectrumEffect ==
  /\ Event
  /\ effectPending
  /\ effectPending' = FALSE
  /\ IF currentFrame = NoBlock
     THEN UNCHANGED <<liveFrame, liveCalibration>>
     ELSE /\ liveFrame' = currentFrame
          /\ liveCalibration' = pageBlackoutCalibrationData
  /\ UNCHANGED <<selectionRect, dragStart, dragMode, dragStartRect,
                 blackoutCalibrationRef, currentFrame,
                 pageBlackoutCalibrationData, canvasLevel, displayVars>>
  /\ UNCHANGED <<pipeVars, utilVars, liveVars, cameraVars>>

\* what the capture of a reference or a sample and the display of the
\* spectra leave alone
captureVars == <<selectionRect, dragStart, dragMode, dragStartRect,
                 blackoutCalibrationRef, currentFrame,
                 pageBlackoutCalibrationData, effectPending, liveFrame,
                 liveCalibration, canvasLevel>>

\* captureReference with onReferenceCaptured = setReferenceFrame
captureReference ==
  /\ Event
  /\ pageReferenceFrame' = getImageData(selectionRect, canvasLevel)
  /\ spectraPending' = TRUE
  /\ UNCHANGED <<pageSampleFrame, shownReference, shownSample,
                 shownAbsorbance, statusPending, lastCalibrationDataRef,
                 averageValues, calibrationQuality>>
  /\ UNCHANGED captureVars
  /\ UNCHANGED <<pipeVars, utilVars, liveVars, cameraVars>>

\* captureSample with onSampleCaptured = setSampleFrame
captureSample ==
  /\ Event
  /\ pageSampleFrame' = getImageData(selectionRect, canvasLevel)
  /\ spectraPending' = TRUE
  /\ UNCHANGED <<pageReferenceFrame, shownReference, shownSample,
                 shownAbsorbance, statusPending, lastCalibrationDataRef,
                 averageValues, calibrationQuality>>
  /\ UNCHANGED captureVars
  /\ UNCHANGED <<pipeVars, utilVars, liveVars, cameraVars>>

\* the call processImageData(frame) of ReferenceSpectrum, SampleSpectrum and
\* AbsorbanceSpectrum: the second argument is left out
DisplayCall(frame) == [frame |-> frame, calibration |-> NoBlock]

\* the display after a capture: ReferenceSpectrum.handleCanvasReady,
\* SampleSpectrum.handleCanvasReady and the data effect of
\* AbsorbanceSpectrum, each returning at once when its frame is missing
RenderSpectra ==
  /\ Event
  /\ spectraPending
  /\ spectraPending' = FALSE
  /\ shownReference' = IF pageReferenceFrame = NoBlock THEN shownReference
                        ELSE DisplayCall(pageReferenceFrame)
  /\ shownSample' = IF pageSampleFrame = NoBlock THEN shownSample
                     ELSE DisplayCall(pageSampleFrame)
  /\ shownAbsorbance' =
        IF pageReferenceFrame = NoBlock \/ pageSampleFrame = NoBlock
        THEN shownAbsorbance
        ELSE <<DisplayCall(pageReferenceFrame), DisplayCall(pageSampleFrame)>>
  /\ UNCHANGED <<pageReferenceFrame, pageSampleFrame, statusPending,
                 lastCalibrationDataRef, averageValues, calibrationQuality>>
  /\ UNCHANGED captureVars
  /\ UNCHANGED <<pipeVars, utilVars, liveVars, cameraVars>>

\* the key BlackoutStatus and LiveSpectrum make of a calibration block:
\* `${width}x${height}`, null without a block
CalibKey(block) ==
  IF block = NoBlock THEN NoKey ELSE <<block.width, block.height>>

\* Math.round(sum / totalPixels) for one channel of a block whose texels all
\* have the grey level of the block
ChannelAverage(block) ==
  LET totalPixels == block.width * block.height
      sum         == block.level * totalPixels
  IN (2 * sum + totalPixels) \div (2 * totalPixels)

AverageValues(block) ==
  [r |-> ChannelAverage(block), g |-> ChannelAverage(block),
   b |-> ChannelAverage(block)]

CalibrationQuality(avg) ==
  LET totalNoise == avg.r + avg.g + avg.b
  IN IF totalNoise < 30 THEN "good"
     ELSE IF totalNoise < 75 THEN "medium"
     ELSE "poor"

\* the effect of BlackoutStatus on [blackoutCalibrationData] (part_004
\* 14-65); a block is never null once one has been captured
BlackoutStatusEffect ==
  /\ Event
  /\ statusPending
  /\ statusPending' = FALSE
  /\ LET calibKey == CalibKey(pageBlackoutCalibrationData)
     IN IF calibKey = lastCalibrationDataRef
        THEN UNCHANGED <<lastCalibrationDataRef, averageValues,
                         calibrationQuality>>
        ELSE /\ lastCalibrationDataRef' = calibKey
             /\ averageValues' = AverageValues(pageBlackoutCalibrationData)
             /\ calibrationQuality' = CalibrationQuality(averageValues')
  /\ UNCHANGED <<pageReferenceFrame, pageSampleFrame, spectraPending,
                 shownReference, shownSample, shownAbsorbance>>
  /\ UNCHANGED captureVars
  /\ UNCHANGED <<pipeVars, utilVars, liveVars, cameraVars>>

(***************************************************************************)
(* Helper functions                                                        *)
(***************************************************************************)
\* the profile lengths and block widths given to pixelToWavelength
MaxBins == 120

UtilInit ==
  /\ called = "none"
  /\ totalBins = 0
  /\ wavelengths = <<>>
  /\ drawnData = <<>>
  /\ drawnWidth = 0
  /\ peaks = <<>>
  /\ candidates = {}
  /\ gaussSize = 0
  /\ gaussSigma = FZero
  /\ gaussKernel = <<>>
  /\ smoothData = <<>>
  /\ smoothHalf = 0
  /\ smoothResult = <<>>

\* the wavelength axis of a profile of totalBins entries: pixelToWavelength
\* for every index (LiveSpectrum.tsx 142, AbsorbanceSpectrum)
MapWavelengths ==
  /\ called = "none"
  /\ called' = "pixelToWavelength"
  /\ \E n \in 2..MaxBins : totalBins' = n
  /\ wavelengths' = Array([i \in 1..totalBins' |->
                             pixelToWavelength(i - 1, totalBins')])
  /\ UNCHANGED <<drawnData, drawnWidth, peaks, candidates, gaussSize, gaussSigma,
                 gaussKernel, smoothData, smoothHalf, smoothResult>>
  /\ UNCHANGED <<pipeVars, uiVars, liveVars, cameraVars>>

\* absorbance profiles given to drawAbsorbanceLine.  d is the distance of a
\* bin from bin 50.
PeakValue == FLit(8, 10)

\* straight flanks: 0.8 * (1 - d / 50)
Triangle ==
  Array([n \in 1..SPECTRUM_RESOLUTION |->
           FRat(8 * (50 - Abs(n - 51)), 500)])

\* a bell: 0.8 * exp(-d^2 / spread), as far as the series of MathExpNeg
\* follows the exponential
Bell(spread) ==
  Array([n \in 1..SPECTRUM_RESOLUTION |->
           FMul(PeakValue, MathExpNeg(FRat((n - 51) * (n - 51), spread)))])

\* a bump with a nearly flat top: from one bin to the next the five values
\* on either side of the maximum fall by one unit in the last place, the
\* others fall to a quarter
FlatTopValue(d) ==
  IF d <= 5 THEN <<PeakValue[1] - d, PeakValue[2]>>
  ELSE <<PeakValue[1] - 5, PeakValue[2] - 2 * (d - 5)>>

FlatTop ==
  Array([n \in 1..SPECTRUM_RESOLUTION |-> FlatTopValue(Abs(n - 51))])

\* two bells, at bins 30 and 34 or further apart
TwoBells(gap) ==
  Array([n \in 1..SPECTRUM_RESOLUTION |->
           FMax(FMul(PeakValue, MathExpNeg(FRat((n - 31) * (n - 31), 4))),
                FMul(PeakValue,
                     MathExpNeg(FRat((n - 31 - gap) * (n - 31 - gap), 4))))])

\* a bell of height 0.4 at bin 30 and one of height 0.8 at bin 36
LowThenHigh ==
  Array([n \in 1..SPECTRUM_RESOLUTION |->
           FMax(FMul(FLit(4, 10), MathExpNeg(FRat((n - 31) * (n - 31), 4))),
                FMul(PeakValue, MathExpNeg(FRat((n - 37) * (n - 37), 4))))])

\* 0.5 from bin 40 to bin 60, 0 elsewhere
Plateau ==
  Array([n \in 1..SPECTRUM_RESOLUTION |->
           IF n >= 41 /\ n <= 61 THEN FLit(1, 2) ELSE FZero])

\* the largest value at bin 0, falling to bin 99
Falling ==
  Array([n \in 1..SPECTRUM_RESOLUTION |-> FRat(SPECTRUM_RESOLUTION + 1 - n, 128)])

\* the largest value at bin 99
Rise == Array([n \in 1..SPECTRUM_RESOLUTION |-> FRat(n, 128)])

\* two narrow bells: 0.06 at bin 30, where the moving average stays below
\* the threshold 0.05, and 0.2 at bin 70
Faint ==
  Array([n \in 1..SPECTRUM_RESOLUTION |->
           FMax(FMul(FLit(6, 100), MathExpNeg(FRat((n - 31) * (n - 31), 4))),
                FMul(FLit(2, 10), MathExpNeg(FRat((n - 71) * (n - 71), 4))))])

Lines ==
  {Triangle, Bell(8), Bell(50), Bell(450), FlatTop, TwoBells(4), TwoBells(40),
   LowThenHigh, Plateau, Falling, Rise, Faint,
   ZeroProfile, Special(SPECTRUM_RESOLUTION, 0)}

DisplayWidths == {300, 600}

\* one call of drawAbsorbanceLine
DrawAbsorbanceLine ==
  /\ called = "none"
  /\ called' = "drawAbsorbanceLine"
  /\ \E line \in Lines, w \in DisplayWidths :
        /\ drawnData' = line
        /\ drawnWidth' = w
        /\ peaks' = drawAbsorbanceLine(line, w)
        /\ candidates' =
              LET smoothedPoints == SmoothedPoints(Points(line, w))
              IN {i - 1 : i \in PeakCandidates(smoothedPoints)}
  /\ UNCHANGED <<totalBins, wavelengths, gaussSize, gaussSigma, gaussKernel,
                 smoothData, smoothHalf, smoothResult>>
  /\ UNCHANGED <<pipeVars, uiVars, liveVars, cameraVars>>

\* odd kernel sizes
MaxKernelSize == 9

KernelSizes == {k \in 1..MaxKernelSize : k % 2 = 1}

\* sigma: 1.0 and 1.5 (the values the smoothers use), 0.5, 2, 3, 1/10, 1/20,
\* 1/1000, 2^-600 and 2^600
Sigmas ==
  {FOne, FLit(3, 2), FLit(1, 2), FromInt(2), FromInt(3), FLit(1, 10),
   FLit(1, 20), FLit(1, 1000),
   <<2^(MantBits - 1), 0 - 600 - (MantBits - 1)>>,
   <<2^(MantBits - 1), 600 - (MantBits - 1)>>}

\* one call of createGaussianKernel
CreateGaussianKernel ==
  /\ called = "none"
  /\ called' = "createGaussianKernel"
  /\ \E k \in KernelSizes, sg \in Sigmas :
        /\ gaussSize' = k
        /\ gaussSigma' = sg
  /\ gaussKernel' = createGaussianKernel(gaussSize', gaussSigma')
  /\ UNCHANGED <<totalBins, wavelengths, drawnData, drawnWidth, peaks, candidates,
                 smoothData, smoothHalf, smoothResult>>
  /\ UNCHANGED <<pipeVars, uiVars, liveVars, cameraVars>>

\* profiles given to the smoothers: constant ones (1/10, 1/3, 200, 2^1023),
\* a rising one, a jagged one, one with a single non-zero bin, all zero
Rising(len) == Array([n \in 1..len |-> FromInt(3 * n)])

Spike(len) ==
  Array([n \in 1..len |-> IF n = (len + 1) \div 2 THEN FromInt(255) ELSE FZero])

SmoothProfiles(len) ==
  {Flat(len, 1, 10), Flat(len, 1, 3), Flat(len, 200, 1), Power(len, 1023),
   Rising(len), Saw(len), Spike(len), Flat(len, 0, 1)}

\* the smoothing pass of processImageData on a profile `intensities`
SmoothingPass ==
  /\ called = "none"
  /\ called' = "processImageData"
  /\ \E data \in SmoothProfiles(SPECTRUM_RESOLUTION) : smoothData' = data
  /\ smoothHalf' = 5 \div 2
  /\ smoothResult' = Smoothed(smoothData')
  /\ UNCHANGED <<totalBins, wavelengths, drawnData, drawnWidth, peaks, candidates,
                 gaussSize, gaussSigma, gaussKernel>>
  /\ UNCHANGED <<pipeVars, uiVars, liveVars, cameraVars>>

\* the sigma of the only call of smoothSpectrum (1.5) and its default (2)
SpectrumSigmas == {FLit(3, 2), FromInt(2)}

SpectrumLengths == {1, 4, 30, SPECTRUM_RESOLUTION}

\* one call of smoothSpectrum
SmoothSpectrum ==
  /\ called = "none"
  /\ called' = "smoothSpectrum"
  /\ \E len \in SpectrumLengths, sg \in SpectrumSigmas :
        /\ \E data \in SmoothProfiles(len) : smoothData' = data
        /\ smoothHalf' = SpectrumKernelSize(sg) \div 2
        /\ smoothResult' = smoothSpectrum(smoothData', sg)
  /\ UNCHANGED <<totalBins, wavelengths, drawnData, drawnWidth, peaks, candidates,
                 gaussSize, gaussSigma, gaussKernel>>
  /\ UNCHANGED <<pipeVars, uiVars, liveVars, cameraVars>>

\* the results are dropped; another call can be looked at
NextCall ==
  /\ called # "none"
  /\ called' = "none"
  /\ totalBins' = 0
  /\ wavelengths' = <<>>
  /\ drawnData' = <<>>
  /\ drawnWidth' = 0
  /\ peaks' = <<>>
  /\ candidates' = {}
  /\ gaussSize' = 0
  /\ gaussSigma' = FZero
  /\ gaussKernel' = <<>>
  /\ smoothData' = <<>>
  /\ smoothHalf' = 0
  /\ smoothResult' = <<>>
  /\ UNCHANGED <<pipeVars, uiVars, liveVars, cameraVars>>

(***************************************************************************)
(* LiveSpectrum: scale tracking and normalization of the live profile      *)
(***************************************************************************)
MaxFrames == 3

\* the frames handed to LiveSpectrum: one row of SPECTRUM_RESOLUTION pixels,
\* white, greys, a dark one below the noise threshold, a ramp, blue
LivePatterns ==
  {Grey(255), Grey(200), Grey(100), Grey(9), Ramp, Colour(0, 0, 255)}

LiveFrames == {FullImage(SPECTRUM_RESOLUTION, 1, pat) : pat \in LivePatterns}

\* the blackout calibration blocks handed to it
LiveDarks ==
  {FullImage(SPECTRUM_RESOLUTION, 1, pat) : pat \in {Colour(12, 8, 20), Grey(40)}}

LiveInit ==
  /\ liveImage = NoImage
  /\ liveDark = NoImage
  /\ maxSeenValue = FZero
  /\ processedData = <<>>
  /\ intensityData = <<>>
  /\ lastCalibrationKey = NoKey
  /\ reportPending = FALSE
  /\ spectrumData = <<>>
  /\ framesProcessed = 0

\* Math.max(...processedData.filter(v => !isNaN(v)), 0.01)
FrameMax(data) ==
  LET values == {data[n] : n \in {k \in 1..Len(data) : data[k] # FNaN}}
                  \cup {FLit(1, 100)}
  IN CHOOSE v \in values : \A w \in values : FLe(w, v)

\* the new maxSeenValueRef.current: up to the frame's maximum but not above
\* maxAllowedValue = 255, or a decay towards it that stays above
\* frameMax * 1.2
NewMaxValue(maxSeen, frameMax) ==
  IF FLt(maxSeen, frameMax) THEN FMin(frameMax, FromInt(255))
  ELSE FMax(FAdd(FMul(FLit(95, 100), maxSeen), FMul(FLit(5, 100), frameMax)),
            FMul(frameMax, FLit(12, 10)))

\* data.indexOf(v), counted from 0; v occurs in data
IndexOf(data, v) ==
  (CHOOSE k \in 1..Len(data) :
      data[k] = v /\ \A j \in 1..(k - 1) : data[j] # v) - 1

\* 380 + (index / processedData.length) * (750 - 380)
LiveWavelength(index, length) ==
  FAdd(FromInt(380),
       FMul(FDiv(FromInt(index), FromInt(length)), FromInt(750 - 380)))

ScaleMultiplier(wavelength) ==
  IF FLt(FromInt(500), wavelength) /\ FLt(wavelength, FromInt(570))
  THEN FLit(85, 100)
  ELSE FOne

\* safeProcessedData: processedData.map(v => ...), maxSeen being the updated
\* maxSeenValueRef.current
SafeProcessedData(data, maxSeen) ==
  Array([n \in 1..Len(data) |->
           IF data[n] = FNaN THEN FZero
           ELSE LET index      == IndexOf(data, data[n])
                    wavelength == LiveWavelength(index, Len(data))
                IN FMul(FDiv(data[n], maxSeen), ScaleMultiplier(wavelength))])

\* the key the reset effect compares
LiveCalibKey(dark) ==
  IF dark = NoImage THEN NoKey ELSE <<dark.width, dark.height>>

\* a new currentFrame arrives and the frame effect runs; processImageData is
\* taken in its three passes (binning, channel weighting, smoothing)
LiveFrameEffect ==
  /\ framesProcessed < MaxFrames
  /\ ~reportPending
  /\ \E img \in LiveFrames :
        /\ liveImage' = img
        /\ \E binned \in {BinSums(img, liveDark)} :
           \E combined \in {CombineBins(binned)} :
           \E data \in {ProfileOf(img, combined)} :
              \E newMaxValue \in {NewMaxValue(maxSeenValue, FrameMax(data))} :
                 /\ processedData' = data
                 /\ maxSeenValue' = newMaxValue
                 /\ intensityData' = SafeProcessedData(data, newMaxValue)
  /\ reportPending' = TRUE
  /\ framesProcessed' = framesProcessed + 1
  /\ UNCHANGED <<liveDark, lastCalibrationKey, spectrumData>>
  /\ UNCHANGED <<pipeVars, uiVars, utilVars, cameraVars>>

\* the effect on intensityData: onDataProcessed gets the wavelength and
\* intensity pairs.  A repetition of the data reported last is skipped, which
\* leaves the latest argument as it is.
LiveReportEffect ==
  /\ reportPending
  /\ reportPending' = FALSE
  /\ spectrumData' =
        IF Len(intensityData) = 0 THEN spectrumData
        ELSE Array([n \in 1..Len(intensityData) |->
                      [wavelength |->
                          pixelToWavelength(n - 1, Len(intensityData)),
                       intensity |-> intensityData[n]]])
  /\ UNCHANGED <<liveImage, liveDark, maxSeenValue, processedData,
                 intensityData, lastCalibrationKey, framesProcessed>>
  /\ UNCHANGED <<pipeVars, uiVars, utilVars, cameraVars>>

\* a new blackoutCalibrationData arrives: the frame effect runs with it when
\* there is a frame, then the reset effect; a key that differs from the last
\* one resets maxSeenValueRef and empties intensityData, the later of the two
\* setIntensityData calls
LiveCalibrationEffects ==
  /\ framesProcessed < MaxFrames
  /\ ~reportPending
  /\ \E dark \in LiveDarks :
        /\ liveDark' = dark
        /\ lastCalibrationKey' = LiveCalibKey(dark)
        /\ \E binned \in {IF liveImage = NoImage THEN <<>>
                          ELSE BinSums(liveImage, dark)} :
           \E combined \in {IF liveImage = NoImage THEN <<>>
                            ELSE CombineBins(binned)} :
           \E data \in {IF liveImage = NoImage THEN processedData
                        ELSE ProfileOf(liveImage, combined)} :
              \E newMaxValue \in
                   {IF liveImage = NoImage THEN maxSeenValue
                    ELSE NewMaxValue(maxSeenValue, FrameMax(data))} :
                 /\ processedData' = data
                 /\ IF LiveCalibKey(dark) = lastCalibrationKey
                    THEN /\ maxSeenValue' = newMaxValue
                         /\ intensityData' =
                               IF liveImage = NoImage THEN intensityData
                               ELSE SafeProcessedData(data, newMaxValue)
                         /\ reportPending' = (liveImage # NoImage)
                    ELSE /\ maxSeenValue' = FZero
                         /\ intensityData' = <<>>
                         /\ reportPending' = FALSE
  /\ framesProcessed' = framesProcessed + 1
  /\ UNCHANGED <<liveImage, spectrumData>>
  /\ UNCHANGED <<pipeVars, uiVars, utilVars, cameraVars>>

(***************************************************************************)
(* WebcamCapture: the device list and the camera stream                    *)
(***************************************************************************)
MaxSelections == 2

\* the deviceIds of the video inputs that enumerateDevices reports
VideoDevices == <<1, 2>>

CameraInit ==
  /\ devices = <<>>
  /\ selectedDeviceId = 0
  /\ stream = 0
  /\ srcObject = 0
  /\ requests = <<>>
  /\ devicesEffectPending = TRUE
  /\ startEffectPending = TRUE
  /\ cleanupStream = 0
  /\ selections = 0
  /\ raced = FALSE

\* a call of getUserMedia: made by getDevices ("probe") or by startCamera
\* ("start") for a device, by a closure that saw selectedDeviceId `selected`;
\* its promise is pending, or it gave a stream whose tracks are live or
\* stopped, or it was rejected
Request(kind, device, selected) ==
  [kind |-> kind, device |-> device, selected |-> selected,
   status |-> "pending"]

Pending(kind) ==
  {i \in 1..Len(requests) :
     requests[i].kind = kind /\ requests[i].status = "pending"}

\* s.getTracks().forEach(track => track.stop()) under `if (s)`
StopTracks(reqs, s) ==
  IF s = 0 THEN reqs ELSE [reqs EXCEPT ![s].status = "stopped"]

EffectsDone == ~devicesEffectPending /\ ~startEffectPending

\* the effect on [selectedDeviceId, stream]: the cleanup of its previous run
\* stops the stream that run saw, then getDevices asks for { video: true }
getDevicesEffect ==
  /\ devicesEffectPending
  /\ devicesEffectPending' = FALSE
  /\ requests' = Append(StopTracks(requests, cleanupStream),
                        Request("probe", 0, selectedDeviceId))
  /\ cleanupStream' = stream
  /\ UNCHANGED <<devices, selectedDeviceId, stream, srcObject,
                 startEffectPending, selections, raced>>
  /\ UNCHANGED <<pipeVars, uiVars, utilVars, liveVars>>

\* the effect on [selectedDeviceId], after the one above: startCamera stops
\* the existing stream and asks for the selected device
startCameraEffect ==
  /\ startEffectPending
  /\ ~devicesEffectPending
  /\ startEffectPending' = FALSE
  /\ requests' =
        IF selectedDeviceId = 0 THEN requests
        ELSE Append(StopTracks(requests, stream),
                    Request("start", selectedDeviceId, selectedDeviceId))
  /\ UNCHANGED <<devices, selectedDeviceId, stream, srcObject,
                 devicesEffectPending, cleanupStream, selections, raced>>
  /\ UNCHANGED <<pipeVars, uiVars, utilVars, liveVars>>

\* getDevices after its awaits: the probe gave a stream, the device list is
\* stored and, when the closure saw no selection, the first device selected.
\* enumerateDevices takes no part in the streams; both awaits are one step.
getDevicesResolved ==
  /\ EffectsDone
  /\ \E i \in Pending("probe") :
        LET first  == VideoDevices[1]
            select == requests[i].selected = 0 /\ selectedDeviceId # first
        IN /\ requests' = [requests EXCEPT ![i].status = "live"]
           /\ devices' = VideoDevices
           /\ selectedDeviceId' = IF select THEN first ELSE selectedDeviceId
           /\ devicesEffectPending' = select
           /\ startEffectPending' = select
           /\ raced' = (raced \/ (select /\ Pending("start") # {}))
  /\ UNCHANGED <<stream, srcObject, cleanupStream, selections>>
  /\ UNCHANGED <<pipeVars, uiVars, utilVars, liveVars>>

\* startCamera after its await (focusMode is 'auto'): setStream(newStream)
\* and videoRef.current.srcObject = newStream
startCameraResolved ==
  /\ EffectsDone
  /\ \E i \in Pending("start") :
        /\ requests' = [requests EXCEPT ![i].status = "live"]
        /\ stream' = i
        /\ srcObject' = i
  /\ devicesEffectPending' = TRUE
  /\ UNCHANGED <<devices, selectedDeviceId, startEffectPending,
                 cleanupStream, selections, raced>>
  /\ UNCHANGED <<pipeVars, uiVars, utilVars, liveVars>>

\* getUserMedia rejects; both callers log the error
getUserMediaRejected ==
  /\ EffectsDone
  /\ \E i \in Pending("probe") \cup Pending("start") :
        requests' = [requests EXCEPT ![i].status = "failed"]
  /\ UNCHANGED <<devices, selectedDeviceId, stream, srcObject,
                 devicesEffectPending, startEffectPending, cleanupStream,
                 selections, raced>>
  /\ UNCHANGED <<pipeVars, uiVars, utilVars, liveVars>>

\* another device is chosen in the list: onValueChange={setSelectedDeviceId}
selectDevice ==
  /\ EffectsDone
  /\ selections < MaxSelections
  /\ \E n \in 1..Len(devices) :
        /\ devices[n] # selectedDeviceId
        /\ selectedDeviceId' = devices[n]
  /\ selections' = selections + 1
  /\ devicesEffectPending' = TRUE
  /\ startEffectPending' = TRUE
  /\ raced' = (raced \/ Pending("start") # {})
  /\ UNCHANGED <<devices, stream, srcObject, requests, cleanupStream>>
  /\ UNCHANGED <<pipeVars, uiVars, utilVars, liveVars>>

Init == PipeInit /\ UIInit /\ UtilInit /\ LiveInit /\ CameraInit

Next ==
  \/ ProcessReference
  \/ ProcessSample
  \/ SupplyProfiles
  \/ CalculateAbsorbance
  \/ DownloadSpectralData
  \/ NewMeasurement

Spec == Init /\ [][Next]_vars

UINext ==
  \/ handleMouseDown
  \/ handleMouseMove
  \/ handleMouseUp
  \/ captureBlackoutCalibration
  \/ processVideoFrame
  \/ LiveSpectrumEffect
  \/ captureReference
  \/ captureSample
  \/ RenderSpectra
  \/ BlackoutStatusEffect

UISpec == Init /\ [][UINext]_vars

UtilNext ==
  \/ MapWavelengths
  \/ DrawAbsorbanceLine
  \/ CreateGaussianKernel
  \/ SmoothingPass
  \/ SmoothSpectrum
  \/ NextCall

UtilSpec == Init /\ [][UtilNext]_vars

LiveNext ==
  \/ LiveFrameEffect
  \/ LiveReportEffect
  \/ LiveCalibrationEffects

LiveSpec == Init /\ [][LiveNext]_vars

CameraNext ==
  \/ getDevicesEffect
  \/ startCameraEffect
  \/ getDevicesResolved
  \/ startCameraResolved
  \/ getUserMediaRejected
  \/ selectDevice

CameraSpec == Init /\ [][CameraNext]_vars

(***************************************************************************)
(* Properties of calculateAbsorbance and processImageData                  *)
(***************************************************************************)
\* every entry is a finite number >= 0
NonNegative(profile) ==
  \A n \in 1..Len(profile) : IsFinite(profile[n]) /\ FLe(FZero, profile[n])

\* every entry is a finite number > 0
AllPositive(profile) ==
  \A n \in 1..Len(profile) : IsFinite(profile[n]) /\ FLt(FZero, profile[n])

\* every entry is a finite number of [0, 1]
InUnitInterval(profile) ==
  \A n \in 1..Len(profile) :
     IsFinite(profile[n]) /\ FLe(FZero, profile[n]) /\ FLe(profile[n], FOne)

\* the wavelength of bin i is 380 + 3.7 * i: ten times that, exactly
TenthsOfNm(i) == 3800 + 37 * i

Region(i) ==
  IF TenthsOfNm(i) < 4900 THEN "blue"
  ELSE IF TenthsOfNm(i) < 5800 THEN "green" ELSE "red"

\* the bins of the 600-700 nm correction band
InBand(i) == 6000 < TenthsOfNm(i) /\ TenthsOfNm(i) < 7000

\* a block with a full buffer whose texels are all the same
IsUniform(frame) ==
  /\ frame # NoImage
  /\ \E pat \in Patterns :
        /\ pat.kind = "uniform"
        /\ frame = FullImage(frame.width, frame.height, pat)

\* C1: for every pair of equal-length profiles whose entries are all positive
\* and finite, every entry of calculateAbsorbance(R, S) lies in [0, 1]
C1_AbsorbanceInUnitInterval ==
  (/\ step = "absorbance"
   /\ Len(referenceData) = Len(sampleData)
   /\ AllPositive(referenceData)
   /\ AllPositive(sampleData))
  => /\ Len(absorbanceData) = Len(referenceData)
     /\ InUnitInterval(absorbanceData)

\* the quotient of the largest by the smallest profile overflows and the
\* entry is clamped to 1
C1_Witness ==
  /\ step = "absorbance"
  /\ referenceData = Power(SPECTRUM_RESOLUTION, 1023)
  /\ sampleData = Power(SPECTRUM_RESOLUTION, 0 - 1074)
  /\ AllPositive(referenceData)
  /\ AllPositive(sampleData)
  /\ \A n \in 1..Len(absorbanceData) : absorbanceData[n] = FOne

\* C2: for every profile X whose entries are all positive,
\* calculateAbsorbance(X, X) is exactly 0 in every bin, the bins of the
\* 600-700 nm correction band included
C2_SelfAbsorbanceIsZero ==
  (/\ step = "absorbance"
   /\ referenceData = sampleData
   /\ AllPositive(referenceData))
  => /\ Len(absorbanceData) = Len(referenceData)
     /\ \A n \in 1..Len(absorbanceData) : absorbanceData[n] = FZero

C2_Witness ==
  /\ step = "absorbance"
  /\ referenceData = Saw(SPECTRUM_RESOLUTION)
  /\ sampleData = referenceData
  /\ AllPositive(referenceData)
  /\ \E i \in Bins : InBand(i) /\ absorbanceData[i + 1] = FZero

\* C3, as claimed: a call of processImageData with a calibration block whose
\* width or height differs from the image block's fails and yields no profile
C3_MismatchedCalibrationFails ==
  (/\ step = "reference"
   /\ referenceFrame # NoImage
   /\ referenceCalibration # NoImage
   /\ \/ referenceCalibration.width # referenceFrame.width
      \/ referenceCalibration.height # referenceFrame.height)
  => /\ outcome = "threw"
     /\ referenceData = <<>>

\* C4, as claimed: a call of calculateAbsorbance with profiles of different
\* lengths fails with no profile output, so that the caller can tell it from
\* a computed absorbance profile
C4_LengthMismatchFails ==
  (/\ step = "absorbance"
   /\ Len(referenceData) # Len(sampleData))
  => /\ outcome = "threw"
     /\ absorbanceData = <<>>

\* the calibration block is the image block itself
SelfCalibrated ==
  /\ step # "start"
  /\ referenceFrame # NoImage
  /\ referenceCalibration = referenceFrame

\* C5, as claimed: in every state reached by capturing blackout calibrations,
\* moving or resizing the selection rectangle and capturing frames, the
\* calibration block that LiveSpectrum passed to processImageData with a
\* frame has the width and the height of that frame
C5_CalibrationMatchesFrame ==
  (liveFrame # NoBlock /\ liveCalibration # NoBlock)
  => /\ liveCalibration.width = liveFrame.width
     /\ liveCalibration.height = liveFrame.height

\* C6, as claimed: with a calibration block identical to the image block every
\* adjusted channel value is 0, every bin of the profile is 0 and the
\* absorbance with that profile as the reference is 0 in every bin
C6_SelfCalibrationGivesZero ==
  SelfCalibrated
  => /\ \A x \in 0..(referenceFrame.width - 1),
           y \in 0..(referenceFrame.height - 1) :
           LET t == ScanTexel(referenceFrame, referenceCalibration, x, y)
           IN t[2] = 0 /\ t[3] = 0 /\ t[4] = 0
     /\ \A n \in 1..Len(referenceData) : referenceData[n] = FZero
     /\ step = "absorbance"
        => \A n \in 1..Len(absorbanceData) : absorbanceData[n] = FZero

\* C6, amended: with a calibration block identical to the image block, adjG
\* is 0 and adjR = 0.05 * r, adjB = 0.05 * b for every texel that is counted
\* (the adjusted values are kept in units of 1/20); the profile is finite and
\* >= 0; the absorbance with that profile as the reference is finite, within
\* [0, 1], and 0 in every bin where the profile is 0
C6_SelfCalibrationResidue ==
  SelfCalibrated
  => /\ \A x \in 0..(referenceFrame.width - 1),
           y \in 0..(referenceFrame.height - 1) :
           LET i == (y * referenceFrame.width + x) * 4
               r == referenceFrame.data[i + 1]
               g == referenceFrame.data[i + 2]
               b == referenceFrame.data[i + 3]
           IN ScanTexel(referenceFrame, referenceCalibration, x, y)
                = IF r + g + b < 30 THEN <<0, 0, 0, 0>> ELSE <<1, r, 0, b>>
     /\ Len(referenceData) = SPECTRUM_RESOLUTION
     /\ NonNegative(referenceData)
     /\ step = "absorbance"
        => /\ InUnitInterval(absorbanceData)
           /\ \A n \in 1..Len(absorbanceData) :
                 referenceData[n] = FZero => absorbanceData[n] = FZero

\* a grey block calibrated with itself keeps a positive profile, and its
\* absorbance against another sample is positive
C6_Witness ==
  /\ SelfCalibrated
  /\ step = "absorbance"
  /\ referenceFrame = FullImage(referenceFrame.width, referenceFrame.height,
                                Grey(200))
  /\ sampleFrame # referenceFrame
  /\ \E n \in 1..Len(referenceData) :
        FLt(FZero, referenceData[n]) /\ FLt(FZero, absorbanceData[n])

\* the Channel-Combiner profile of the reference call, when the block is
\* uniform and there is no calibration
UniformReference ==
  /\ step = "reference"
  /\ referenceCalibration = NoImage
  /\ IsUniform(referenceFrame)

GreyPair ==
  /\ step = "absorbance"
  /\ referenceCalibration = NoImage
  /\ sampleCalibration = NoImage
  /\ referenceFrame # NoImage
  /\ referenceFrame = FullImage(referenceFrame.width, referenceFrame.height,
                                Grey(200))
  /\ sampleFrame = FullImage(referenceFrame.width, referenceFrame.height,
                             Grey(100))

\* 0.3010 < a < 0.3011
NearLog10Of2(a) == FLt(FLit(3010, 10000), a) /\ FLt(a, FLit(3011, 10000))

\* C8, as claimed: the absorbance of the two profiles is -log10(0.5) in every
\* bin outside the correction band and strictly lower in every bin inside
C8_GreyPairAbsorbance ==
  GreyPair
  => \A i \in Bins :
        IF InBand(i)
        THEN FLt(absorbanceData[i + 1], FLit(3010, 10000))
        ELSE NearLog10Of2(absorbanceData[i + 1])

\* C8, amended: in every bin where the two profiles are positive the
\* absorbance is one and the same value -log10(0.5) outside the band and a
\* positive, strictly lower value inside; where the profiles are 0 it is 0
C8_GreyPairAbsorbanceOnFilledBins ==
  GreyPair
  => \A i \in Bins :
        /\ referenceData[i + 1] = FZero <=> sampleData[i + 1] = FZero
        /\ IF referenceData[i + 1] = FZero THEN absorbanceData[i + 1] = FZero
           ELSE IF InBand(i)
           THEN /\ FLt(FZero, absorbanceData[i + 1])
                /\ \A j \in Bins :
                      (~InBand(j) /\ referenceData[j + 1] # FZero)
                      => FLt(absorbanceData[i + 1], absorbanceData[j + 1])
           ELSE /\ NearLog10Of2(absorbanceData[i + 1])
                /\ \A j \in Bins :
                      (~InBand(j) /\ referenceData[j + 1] # FZero)
                      => absorbanceData[j + 1] = absorbanceData[i + 1]

\* a block of 3 columns fills bins 0, 33 and 66: bin 0 has the value, bin 10
\* has none, bin 66 inside the band has a lower one
C8_Witness ==
  /\ GreyPair
  /\ referenceFrame.width = 3
  /\ NearLog10Of2(absorbanceData[1])
  /\ absorbanceData[11] = FZero
  /\ FLt(FZero, absorbanceData[67])
  /\ FLt(absorbanceData[67], absorbanceData[1])

\* C9, as claimed: every array returned by processImageData and by
\* calculateAbsorbance has length SPECTRUM_RESOLUTION
C9_EveryLengthIsResolution ==
  /\ step = "reference" => Len(referenceData) = SPECTRUM_RESOLUTION
  /\ (step = "sample" /\ outcome = "returned")
     => Len(sampleData) = SPECTRUM_RESOLUTION
  /\ step = "absorbance" => Len(absorbanceData) = SPECTRUM_RESOLUTION

\* C9, amended: every array returned by processImageData has length
\* SPECTRUM_RESOLUTION; calculateAbsorbance returns SPECTRUM_RESOLUTION
\* entries when the two lengths differ and as many entries as the reference
\* profile when they are equal
C9_Lengths ==
  /\ step = "reference" => Len(referenceData) = SPECTRUM_RESOLUTION
  /\ (step = "sample" /\ outcome = "returned")
     => Len(sampleData) = SPECTRUM_RESOLUTION
  /\ step = "absorbance"
     => Len(absorbanceData)
          = IF Len(referenceData) # Len(sampleData) THEN SPECTRUM_RESOLUTION
            ELSE Len(referenceData)

C9_Witness ==
  /\ step = "absorbance"
  /\ Len(referenceData) = SPECTRUM_RESOLUTION + 1
  /\ Len(sampleData) = SPECTRUM_RESOLUTION + 1
  /\ Len(absorbanceData) = SPECTRUM_RESOLUTION + 1

\* C10: every entry of the profile returned by processImageData is finite and
\* >= 0, before and after smoothing, with or without calibration, with bins
\* that received no texel and with a buffer shorter than width * height * 4
C10_ProfileFiniteNonNegative ==
  /\ step = "reference"
     => NonNegative(referenceData) /\ NonNegative(intensities)
  /\ (step = "sample" /\ outcome = "returned")
     => NonNegative(sampleData) /\ NonNegative(intensities)

\* a short buffer, a bin without texel and a bin with a positive value
C10_Witness ==
  /\ step = "reference"
  /\ referenceFrame # NoImage
  /\ Len(referenceFrame.data) < referenceFrame.width * referenceFrame.height * 4
  /\ BinSums(referenceFrame, referenceCalibration)[11][4] = 0
  /\ referenceData[11] = FZero
  /\ \E n \in 1..Len(referenceData) : FLt(FZero, referenceData[n])

(***************************************************************************)
(* Degenerate and invalid entries                                          *)
(***************************************************************************)
\* v is a number and v <= 0
IsNonPositive(v) == v = FZero \/ v = FNegInf \/ v[1] < 0

\* C11: for every bin i of equal-length profiles R and S, if R[i] <= 0 or
\* S[i] <= 0 then calculateAbsorbance(R, S)[i] is exactly 0, whatever the
\* other of the two values is
C11_DegenerateRatioIsZero ==
  (/\ step = "absorbance"
   /\ Len(referenceData) = Len(sampleData))
  => /\ Len(absorbanceData) = Len(referenceData)
     /\ \A n \in 1..Len(referenceData) :
          (IsNonPositive(referenceData[n]) \/ IsNonPositive(sampleData[n]))
          => absorbanceData[n] = FZero

\* a sample value 0 under a reference value that is NaN, a negative sample
\* value under an infinite reference value
C11_Witness ==
  /\ step = "absorbance"
  /\ Len(referenceData) = Len(sampleData)
  /\ \E n \in 1..Len(referenceData) :
        /\ referenceData[n] = FNaN
        /\ sampleData[n] = FZero
        /\ absorbanceData[n] = FZero
  /\ \E n \in 1..Len(referenceData) :
        /\ referenceData[n] = FInf
        /\ sampleData[n] = FromInt(0 - 1)
        /\ absorbanceData[n] = FZero

\* C12, as claimed: for equal-length profiles in which some entry is NaN,
\* +Infinity, -Infinity or undefined, the value returned for every bin is a
\* finite number of [0, 1]; NaN never appears in the output
C12_InvalidEntriesGiveFinite ==
  (/\ step = "absorbance"
   /\ Len(referenceData) = Len(sampleData))
  => InUnitInterval(absorbanceData)

(***************************************************************************)
(* The wavelength mapper                                                   *)
(***************************************************************************)
\* C13: for every N >= 2, pixelToWavelength(0, N) = 380 and
\* pixelToWavelength(N - 1, N) = 750, and for every i in 0 .. N - 1 the result
\* is an integer of [380, 750] that is non-decreasing in i
C13_WavelengthEndpointsAndOrder ==
  totalBins >= 2
  => /\ Len(wavelengths) = totalBins
     /\ wavelengths[1] = 380
     /\ wavelengths[totalBins] = 750
     /\ \A n \in 1..totalBins :
          /\ wavelengths[n] \in 380..750
          /\ n > 1 => wavelengths[n - 1] <= wavelengths[n]

\* 100 bins; 5 bins, where bin 1 lies at 472.5 nm exactly and is reported
\* as 473
C13_Witness ==
  \/ /\ totalBins = SPECTRUM_RESOLUTION
     /\ wavelengths[1] = 380
     /\ wavelengths[51] = 567
     /\ wavelengths[SPECTRUM_RESOLUTION] = 750
  \/ /\ totalBins = 5
     /\ wavelengths = <<380, 473, 565, 658, 750>>

(***************************************************************************)
(* Peak detection                                                          *)
(***************************************************************************)
\* a profile of 100 bins, symmetric about bin 50 where it has its maximum
\* 0.8, every value positive and smaller than the one next to it on the side
\* of bin 50
IsSingleBump(line) ==
  /\ Len(line) = SPECTRUM_RESOLUTION
  /\ line[51] = PeakValue
  /\ \A n \in 1..SPECTRUM_RESOLUTION : IsFinite(line[n]) /\ FLe(FZero, line[n])
  /\ \A n \in 2..SPECTRUM_RESOLUTION : line[n] = line[102 - n]
  /\ \A n \in 1..50 : FLt(line[n], line[n + 1])

\* between bins 46 and 50 every value exceeds the one before it by 0.002 at
\* least
HasSteepTop(line) ==
  \A n \in 47..50 : FLe(FAdd(line[n], FLit(2, 1000)), line[n + 1])

C15_CsvMatchesPipeline ==
  (/\ step = "exported"
   /\ referenceCalibration = NoImage
   /\ sampleCalibration = NoImage)
  => /\ Len(csvRows) = SPECTRUM_RESOLUTION
     /\ \A i \in Bins :
          /\ csvRows[i + 1].wavelength = pixelToWavelength(i, SPECTRUM_RESOLUTION)
          /\ csvRows[i + 1].reference = ToFixed(referenceData[i + 1], 2)
          /\ csvRows[i + 1].sample = ToFixed(sampleData[i + 1], 2)
          /\ csvRows[i + 1].absorbance = ToFixed(absorbanceData[i + 1], 4)

(***************************************************************************)
(* The Gaussian kernel                                                     *)
(***************************************************************************)
\* kernel[i] = kernel[size - 1 - i]
IsSymmetric(kernel) ==
  \A n \in 1..Len(kernel) : kernel[n] = kernel[Len(kernel) + 1 - n]

\* the sum of the weights differs from 1 by no more than the rounding of the
\* divisions and of the additions: 2 * size units in the last place of 1
SumsToOne(kernel) ==
  LET sum  == FSum(kernel, Len(kernel))
      unit == <<2^(MantBits - 1), 0 - 2 * (MantBits - 1)>>
  IN /\ IsFinite(sum)
     /\ FLe(FAbs(FSub(sum, FOne)), FMul(FromInt(2 * Len(kernel)), unit))

Scanned == binSums # <<>>

\* the block and the calibration of the latest call
ScannedFrame == IF step = "reference" THEN referenceFrame ELSE sampleFrame

ScannedCalibration ==
  IF step = "reference" THEN referenceCalibration ELSE sampleCalibration

\* raw r + g + b of the texel at column x, row y
RawSum(frame, x, y) ==
  LET i == (y * frame.width + x) * 4
  IN Byte(frame.data, i) + Byte(frame.data, i + 1) + Byte(frame.data, i + 2)

\* the texels of the columns cols with raw r + g + b >= 30
BrightTexels(frame, cols) ==
  {t \in cols \X (0..(frame.height - 1)) : RawSum(frame, t[1], t[2]) >= 30}

\* counts[lo - 1] + .. + counts[hi - 1]
RECURSIVE CountSum(_, _, _)
CountSum(sums, lo, hi) ==
  IF lo > hi THEN 0
  ELSE IF lo = hi THEN sums[lo][4]
  ELSE LET mid == (lo + hi) \div 2
       IN CountSum(sums, lo, mid) + CountSum(sums, mid + 1, hi)

\* C17: a texel contributes to the channel sums and to the count of a bin if
\* and only if its raw r + g + b >= 30: the count of every bin is the number
\* of texels of its columns with r + g + b >= 30, whatever the calibration
\* subtraction leaves of them, and a bin whose texels all have r + g + b < 30
\* has sums 0 and count 0
C17_CountedIffRawSumAtLeast30 ==
  Scanned
  => LET cols == BinColumns(ScannedFrame.width)
     IN \A n \in 1..SPECTRUM_RESOLUTION :
           LET bright == BrightTexels(ScannedFrame, cols[n])
           IN /\ binSums[n][4] = Cardinality(bright)
              /\ bright = {} => binSums[n] = <<0, 0, 0, 0>>

\* a block of (10, 10, 10) texels, r + g + b = 30, with a calibration block
\* of (40, 40, 40) texels: the adjusted values are 0 and the texels are
\* counted
C17_Witness ==
  /\ step = "reference"
  /\ referenceFrame = FullImage(3, 2, Grey(10))
  /\ referenceCalibration = FullImage(3, 2, Grey(40))
  /\ ScanTexel(referenceFrame, referenceCalibration, 0, 0) = <<1, 0, 0, 0>>
  /\ binSums[1] = <<0, 0, 0, 2>>

\* C18, as claimed: every texel with r + g + b >= 30 of column x is
\* accumulated into exactly one bin, the bin floor(x * N / W), which is in
\* 0 .. N - 1 and non-decreasing in x; the sum of all counts is the number of
\* texels with r + g + b >= 30; for W = N column x feeds bin x, so that every
\* bin receives the texels of a column
C18_ColumnFeedsExactBin ==
  Scanned
  => LET W    == ScannedFrame.width
         cols == BinColumns(W)
     IN /\ \A x \in 0..(W - 1) :
             /\ SpectrumIndex(x, W) = (x * SPECTRUM_RESOLUTION) \div W
             /\ \A n \in 1..SPECTRUM_RESOLUTION :
                  x \in cols[n] <=> n - 1 = (x * SPECTRUM_RESOLUTION) \div W
        /\ CountSum(binSums, 1, SPECTRUM_RESOLUTION)
             = Cardinality(BrightTexels(ScannedFrame, 0..(W - 1)))
        /\ W = SPECTRUM_RESOLUTION
           => \A n \in 1..SPECTRUM_RESOLUTION : cols[n] = {n - 1}

\* C18, amended: the bin of column x is Math.floor((x / W) * N) as binary64
\* computes it: floor(x * N / W), or one less for some of the columns where
\* x * N / W is an integer.  It is in 0 .. N - 1 and non-decreasing in x,
\* every column feeds exactly one bin, and the sum of all counts is the
\* number of texels with r + g + b >= 30.  For W = N = 100 column x feeds
\* bin x except columns 29, 57 and 58, which feed bins 28, 56 and 57: bins
\* 29 and 58 receive no texel.
C18_ColumnFeedsOneBin ==
  Scanned
  => LET W    == ScannedFrame.width
         cols == BinColumns(W)
     IN /\ \A x \in 0..(W - 1) :
             LET k == (x * SPECTRUM_RESOLUTION) \div W
                 j == SpectrumIndex(x, W)
             IN /\ j \in 0..(SPECTRUM_RESOLUTION - 1)
                /\ j = k \/ (j = k - 1 /\ (x * SPECTRUM_RESOLUTION) % W = 0)
                /\ x > 0 => SpectrumIndex(x - 1, W) <= j
                /\ \A n \in 1..SPECTRUM_RESOLUTION : x \in cols[n] <=> n - 1 = j
        /\ CountSum(binSums, 1, SPECTRUM_RESOLUTION)
             = Cardinality(BrightTexels(ScannedFrame, 0..(W - 1)))
        /\ W = SPECTRUM_RESOLUTION
           => /\ \A x \in 0..(W - 1) :
                   SpectrumIndex(x, W) = IF x \in {29, 57, 58} THEN x - 1 ELSE x
              /\ binSums[30][4] = 0
              /\ binSums[59][4] = 0

C18_Witness ==
  /\ step = "reference"
  /\ referenceFrame = FullImage(SPECTRUM_RESOLUTION, 2, Grey(200))
  /\ binSums[29][4] = 4
  /\ binSums[30][4] = 0
  /\ CountSum(binSums, 1, SPECTRUM_RESOLUTION) = 2 * SPECTRUM_RESOLUTION

(***************************************************************************)
(* The channel weights                                                     *)
(***************************************************************************)
\* the row <<redWeight, greenWeight, blueWeight>> (in tenths) of the weight
\* table for a wavelength in nm
WeightRow(nm) ==
  IF nm < 490 THEN <<0, 2, 10>>
  ELSE IF nm < 580 THEN <<2, 7, 2>>
  ELSE <<8, 2, 0>>

\* the channel averages of bin i weighted with the row w
WeightedWith(sums, i, w) ==
  LET t    == sums[i + 1]
      avgR == FRat(t[1], 20 * t[4])
      avgG == FRat(t[2], 20 * t[4])
      avgB == FRat(t[3], 20 * t[4])
  IN FAdd(FAdd(FMul(avgR, FLit(w[1], 10)), FMul(avgG, FLit(w[2], 10))),
          FMul(avgB, FLit(w[3], 10)))

\* C19, as claimed: for every bin i with at least one counted texel, the
\* weights applied to the channel averages of the bin are the table row
\* selected by pixelToWavelength(i, N): (1.0, 0.2, 0.0) for blue, green, red
\* below 490 nm, (0.2, 0.7, 0.2) from 490 up to 580 nm, (0.0, 0.2, 0.8) at
\* 580 nm and above
C19_WeightsByMappedWavelength ==
  Scanned
  => \A i \in Bins :
        binSums[i + 1][4] > 0
        => LET row == WeightRow(pixelToWavelength(i, SPECTRUM_RESOLUTION))
           IN /\ ChannelWeights(i) = row
              /\ intensities[i + 1] = WeightedWith(binSums, i, row)

(***************************************************************************)
(* The two smoothers                                                       *)
(***************************************************************************)
SmootherCalled == called \in {"processImageData", "smoothSpectrum"}

\* the entries of smoothData under the kernel centred on entry n
Window(n) ==
  {OrZero(smoothData[j]) :
     j \in {k \in 1..Len(smoothData) : Abs(k - n) <= smoothHalf}}

WindowMin(n) == CHOOSE v \in Window(n) : \A u \in Window(n) : FLe(v, u)

WindowMax(n) == CHOOSE v \in Window(n) : \A u \in Window(n) : FLe(u, v)

\* the rounding allowance of a weighted average of the window of entry n:
\* 2^(5 - MantBits) times the largest magnitude in the window
Allowance(n) ==
  FMul(<<2^(MantBits - 1), (5 - MantBits) - (MantBits - 1)>>,
       FMax(FAbs(WindowMin(n)), FAbs(WindowMax(n))))

\* every entry is finite and of magnitude at most 2^1000
Moderate(data) ==
  \A n \in 1..Len(data) :
     FLe(FAbs(OrZero(data[n])), <<2^(MantBits - 1), 1000 - (MantBits - 1)>>)

InRedBand(index) ==
  6000 < 3800 + 37 * index /\ 3800 + 37 * index < 7000

\* 1.0 - 0.7 * (1 - |w - 650| / 50) = (1500 + 7 * |37 * index - 2700|) / 5000
ExactCorrection(index) == FRat(1500 + 7 * Abs(37 * index - 2700), 5000)

\* a and b differ by at most 2^(5 - MantBits): the wavelength, a number
\* between 512 and 1024, is rounded to a multiple of 2^(10 - MantBits)
CloseTo(a, b) ==
  FLe(FAbs(FSub(a, b)), <<2^(MantBits - 1), (5 - MantBits) - (MantBits - 1)>>)

DrawnLength == Len(drawnData)

AllDefined(line) == \A n \in 1..Len(line) : line[n] # FUndef

\* the displayed value of bin j: the magnitude, at most 1
Displayed(j) == FMin(FOne, FAbs(drawnData[j + 1]))

RECURSIVE DisplayedSum(_, _)
DisplayedSum(lo, j) ==
  IF j < lo THEN FZero ELSE FAdd(DisplayedSum(lo, j - 1), Displayed(j))

\* the 5-tap moving average at bin i, over the bins of i - 2 .. i + 2 that
\* exist
MovingAverage(i) ==
  LET lo == Max(0, i - 2)
      hi == Min(DrawnLength - 1, i + 2)
  IN FDiv(DisplayedSum(lo, hi), FromInt(hi - lo + 1))

\* C22: an index i with 2 <= i <= length - 3 is a candidate peak if and only
\* if the 5-tap moving average at i is strictly greater than the moving
\* averages at i - 1, i - 2, i + 1 and i + 2 and strictly greater than 0.05;
\* indices 0, 1, length - 2 and length - 1 are never candidates, and a
\* candidate never has a neighbour of equal moving average
C22_CandidateIffStrictMaximum ==
  (called = "drawAbsorbanceLine" /\ AllDefined(drawnData))
  => /\ \A i \in 2..(DrawnLength - 3) :
           i \in candidates
           <=> /\ FLt(MovingAverage(i - 1), MovingAverage(i))
               /\ FLt(MovingAverage(i - 2), MovingAverage(i))
               /\ FLt(MovingAverage(i + 1), MovingAverage(i))
               /\ FLt(MovingAverage(i + 2), MovingAverage(i))
               /\ FLt(FLit(5, 100), MovingAverage(i))
     /\ candidates \subseteq 2..(DrawnLength - 3)
     /\ \A i \in candidates :
           /\ MovingAverage(i) # MovingAverage(i - 1)
           /\ MovingAverage(i) # MovingAverage(i + 1)

\* the line with bells of 0.06 at bin 30 and 0.2 at bin 70: bin 70 is the
\* only candidate; bin 30 is a strict maximum of the moving average but stays
\* below 0.05 though its own value is above
C22_Witness ==
  /\ called = "drawAbsorbanceLine"
  /\ drawnData = Faint
  /\ candidates = {70}
  /\ FLt(MovingAverage(31), MovingAverage(30))
  /\ FLt(MovingAverage(29), MovingAverage(30))
  /\ FLt(MovingAverage(30), FLit(5, 100))
  /\ FLt(FLit(5, 100), Displayed(30))

\* the rendered x coordinate of bin i of the drawn line
RenderedX(i) == PointX(i, DrawnLength, drawnWidth)

\* the candidate of bin i is in the returned list
Accepted(i) == \E k \in 1..Len(peaks) : peaks[k].x = RenderedX(i)

FarApart(x1, x2) == FLt(FromInt(peakProximity), FAbs(FSub(x1, x2)))

\* C23: peak acceptance is greedy in index order: a candidate is accepted if
\* and only if its rendered x coordinate is more than 25 pixels from that of
\* every candidate accepted before it; any two peaks of the returned list are
\* more than 25 pixels apart, the list is in increasing index order, and
\* every peak of the list is a candidate
C23_GreedyAcceptance ==
  (called = "drawAbsorbanceLine" /\ AllDefined(drawnData))
  => /\ \A i \in candidates :
           Accepted(i)
           <=> \A j \in candidates :
                  (j < i /\ Accepted(j)) => FarApart(RenderedX(j), RenderedX(i))
     /\ \A k \in 1..Len(peaks) :
           /\ \E i \in candidates :
                 /\ peaks[k].x = RenderedX(i)
                 /\ peaks[k].wavelength = pixelToWavelength(i, DrawnLength)
                 /\ peaks[k].value = MovingAverage(i)
           /\ \A j \in 1..(k - 1) :
                 /\ FLt(peaks[j].x, peaks[k].x)
                 /\ FarApart(peaks[j].x, peaks[k].x)

\* bells of 0.4 at bin 30 and of 0.8 at bin 36 drawn 300 pixels wide: both
\* bins are candidates, 14.5 pixels apart; the lower one at bin 30 is
\* accepted and blocks the higher one at bin 36
C23_Witness ==
  /\ called = "drawAbsorbanceLine"
  /\ drawnData = LowThenHigh
  /\ drawnWidth = 300
  /\ candidates = {30, 36}
  /\ FLt(MovingAverage(30), MovingAverage(36))
  /\ ~FarApart(RenderedX(30), RenderedX(36))
  /\ Len(peaks) = 1
  /\ peaks[1].x = RenderedX(30)

(***************************************************************************)
(* The blackout calibration during a session                               *)
(***************************************************************************)
\* blackoutCalibrationRef holds the block of the latest capture
CalibrationApplied ==
  /\ pageBlackoutCalibrationData = blackoutCalibrationRef
  /\ blackoutCalibrationRef = NoBlock => liveCalibration = NoBlock
  /\ (liveFrame # NoBlock /\ ~effectPending)
     => liveCalibration = blackoutCalibrationRef

\* a step in which LiveSpectrum processes a frame hands it the block of the
\* latest capture; a step never clears the calibration
CalibrationStep ==
  /\ <<liveFrame, liveCalibration>>' # <<liveFrame, liveCalibration>>
     => liveCalibration' = blackoutCalibrationRef
  /\ blackoutCalibrationRef # NoBlock
     => /\ blackoutCalibrationRef' # NoBlock
        /\ pageBlackoutCalibrationData' # NoBlock

\* C24: over any sequence of calibration captures and frame captures, no
\* calibration block is applied to a frame before the first calibration;
\* afterwards the block applied to a live frame is the block of the most
\* recent capture, as a whole; a captured calibration is never cleared
C24_LatestCalibrationApplied ==
  [](CalibrationApplied) /\ [][CalibrationStep]_vars

\* a calibration captured with the camera covered (level 5), another one
\* captured with a lit scene (level 40), then a frame processed by
\* LiveSpectrum with the second block
C24_Witness ==
  /\ blackoutCalibrationRef = [width |-> 225, height |-> 85, level |-> 40]
  /\ lastCalibrationDataRef = <<225, 85>>
  /\ averageValues.r = 5
  /\ liveFrame # NoBlock
  /\ ~effectPending
  /\ liveCalibration = blackoutCalibrationRef

(***************************************************************************)
(* The calibration in the reference, sample and absorbance displays        *)
(***************************************************************************)
\* the calibration is handed to the call whenever one is held
Calibrated(call) ==
  blackoutCalibrationRef # NoBlock => call.calibration = blackoutCalibrationRef

\* C25, as claimed: once a blackout calibration has been captured, the
\* reference, the sample and the absorbance display of frames captured
\* afterwards give processImageData that calibration block
C25_DisplaysUseCalibration ==
  [][/\ shownReference' # shownReference => Calibrated(shownReference')
     /\ shownSample' # shownSample => Calibrated(shownSample')
     /\ shownAbsorbance' # shownAbsorbance
        => (Calibrated(shownAbsorbance'[1]) /\ Calibrated(shownAbsorbance'[2]))
    ]_vars

(***************************************************************************)
(* BlackoutStatus                                                          *)
(***************************************************************************)
\* C27, as claimed: after every blackout calibration capture, including a
\* recalibration taken with the selection size of the previous one, once the
\* effect of BlackoutStatus has run the averages and the grade shown are
\* those of the most recently captured block
C27_StatusShowsLatestCalibration ==
  (blackoutCalibrationRef # NoBlock /\ ~statusPending)
  => /\ averageValues = AverageValues(blackoutCalibrationRef)
     /\ calibrationQuality
          = CalibrationQuality(AverageValues(blackoutCalibrationRef))

(***************************************************************************)
(* The selection rectangle                                                 *)
(***************************************************************************)
RectInCanvas ==
  /\ selectionRect.x >= 0
  /\ selectionRect.y >= 0
  /\ selectionRect.x + selectionRect.width <= Canvas.width
  /\ selectionRect.y + selectionRect.height <= Canvas.height
  /\ selectionRect.width >= minSize
  /\ selectionRect.height >= minSize

MoveKeepsSize ==
  dragMode = "move"
  => /\ selectionRect'.width = selectionRect.width
     /\ selectionRect'.height = selectionRect.height

\* C28: with mouse positions inside the canvas, after any sequence of
\* mouse-down, mouse-move and mouse-up events the selection rectangle lies
\* within the canvas (x >= 0, y >= 0, x + width <= canvas width,
\* y + height <= canvas height) and is at least 50 wide and 50 high; a
\* 'move' drag never changes width or height
C28_SelectionWithinCanvas ==
  [](RectInCanvas) /\ [][MoveKeepsSize]_vars

\* the south-east corner has been dragged from 10 pixels inside the corner
\* to 5 pixels from the canvas edges: the resized rectangle would be 645
\* wide and 485 high and has been cut to the canvas
C28_Witness ==
  /\ dragMode = "resize-se"
  /\ dragStartRect = [x |-> 0, y |-> 0, width |-> 225, height |-> 85]
  /\ dragStart = [x |-> 215, y |-> 75]
  /\ selectionRect = [x |-> 0, y |-> 0, width |-> Canvas.width,
                      height |-> Canvas.height]

(***************************************************************************)
(* The camera stream                                                       *)
(***************************************************************************)
\* every call of getUserMedia has resolved and the effects have run
AllSettled ==
  /\ EffectsDone
  /\ \A i \in 1..Len(requests) : requests[i].status \in {"live", "stopped"}

\* the video element shows a live stream of the selected device
SelectedAttached ==
  /\ srcObject # 0
  /\ requests[srcObject].status = "live"
  /\ requests[srcObject].device = selectedDeviceId

\* the streams that are not attached have been stopped
OthersStopped ==
  \A i \in 1..Len(requests) :
     (i # srcObject /\ requests[i].kind = "start")
     => requests[i].status = "stopped"

ProbesStopped ==
  \A i \in 1..Len(requests) :
     requests[i].kind = "probe" => requests[i].status = "stopped"

\* C29, as claimed: when the selected camera is changed while an earlier
\* start request is pending then, in whatever order the pending getUserMedia
\* requests resolve, once all have settled the stream attached to the video
\* element is the stream of the selected device and every other stream
\* obtained from getUserMedia, the probe streams of getDevices included, has
\* had its tracks stopped
C29_SelectedStreamAttached ==
  (raced /\ AllSettled) => (SelectedAttached /\ OthersStopped /\ ProbesStopped)

(***************************************************************************)
(* The live profile                                                        *)
(***************************************************************************)
\* the frame effect has run and its result has not been cleared by a reset
LiveShown == Len(intensityData) > 0

InUnit(v) == FLe(FZero, v) /\ FLe(v, FOne)

\* C26, as claimed: after any sequence of frames processed by LiveSpectrum,
\* from maxSeenValue = 0 or from a reset, the updated maxSeenValue is at
\* least the maximum of the current frame's profile, and every normalized
\* value handed to the display and to onDataProcessed lies in [0, 1]
C26_NormalizedWithinUnit ==
  /\ LiveShown
     => \A n \in 1..Len(processedData) :
           FLe(processedData[n], maxSeenValue)
  /\ \A n \in 1..Len(intensityData) : InUnit(intensityData[n])
  /\ \A n \in 1..Len(spectrumData) : InUnit(spectrumData[n].intensity)

\* C30, as claimed: the 0.85 multiplier of the green region is applied to the
\* value of bin i exactly when the wavelength of bin i itself,
\* 380 + (i / length) * 370, lies strictly between 500 and 570 nm, also in
\* profiles that hold one value in several bins
C30_GreenMultiplierByBin ==
  LiveShown
  => \A n \in 1..Len(processedData) :
        processedData[n] # FNaN
        => intensityData[n]
             = FMul(FDiv(processedData[n], maxSeenValue),
                    ScaleMultiplier(LiveWavelength(n - 1,
                                                   Len(processedData))))

====
